---- MODULE Spec2Model ----
(***************************************************************************)
(* A model of the XMIT class of src/xmi/__init__.py: the NETDATA (XMI)     *)
(* segment decoder, the AWS/HET tape block decoder, the IEBCOPY member     *)
(* reassembler and the query API, at byte level.  Buffers are sequences of *)
(* bytes (0..255); a Python index i is the TLA+ index i + 1.               *)
(***************************************************************************)
EXTENDS Integers, Sequences, FiniteSets, TLC

VARIABLES
    \* ---- the XMIT object (XMIT.__init__) ----
    filename,       \* self.filename: None or a path
    disk,           \* the bytes of the file self.filename names (NoFile when absent)
    file_object,    \* self.file_object: None or bytes
    infile,         \* self.infile: None or an override name
    xmit_object,    \* self.xmit_object
    tape_object,    \* self.tape_object
    xmit,           \* self.xmit (dict)
    tape,           \* self.tape (dict)
    msg,            \* self.msg
    INMR02_count,   \* self.INMR02_count
    INMR03_count,   \* self.INMR03_count
    filelocation,   \* self.filelocation
    force,          \* self.force (force_convert)
    unnum,          \* self.unnum
    binary,         \* self.binary
    manual_recordlength,  \* self.manual_recordlength (LRECL)
    \* ---- control ----
    pc,             \* where the running call stands
    err,            \* the exception the call raised ("" when none)
    opens,          \* number of open() calls made so far
    \* ---- locals of parse_xmi ----
    loc,            \* cursor of the running loop
    record_data,    \* parse_xmi: record_data
    \* ---- locals of parse_tape ----
    tape_file, tape_text, UTL, eof_marker, eor_marker, file_num, HDR1, HDR2, volume_label,
    \* ---- locals of __process_blocks ----
    dsname,         \* the partitioned dataset being processed (parameter filename)
    member_blocks, member_dict, sorted_ttrs, ttrs, ttr_location,
    member_data, vb_member_data, deleted_num, prev_ttr, record_closed, member_name,
    \* ---- history (what the run did, for stating the properties) ----
    routed,         \* XMI: per dataset name, the payload bytes routed to it, in order
    msg_routed,     \* XMI: the payload bytes routed to the message buffer, in order
    blocks_read,    \* tape: decoded payloads appended since the accumulator was last emptied
    ended_by,       \* tape: the flags of the blocks at which an accumulator was promoted or discarded
    unit_named,     \* XMI: the INMR02 indices whose text units carried INMDSNAM
    directory,      \* PDS: the members as __get_members_info returned them
    stored,         \* PDS: for each completion, the member name it was stored under
    called,         \* the last call of a method that only computes: its name and arguments
    returned,       \* what that call returned
    previous        \* at a call of open(): its buffer, and what the call before it had left

objvars  == <<filename, disk, file_object, infile, xmit_object, tape_object, xmit, tape,
              msg, INMR02_count, INMR03_count, filelocation>>
cfgvars  == <<force, unnum, binary, manual_recordlength>>
ctlvars  == <<pc, err, opens>>
xmivars  == <<loc, record_data>>
tapevars == <<tape_file, tape_text, UTL, eof_marker, eor_marker, file_num, HDR1, HDR2,
              volume_label>>
pdsvars  == <<dsname, member_blocks, member_dict, sorted_ttrs, ttrs, ttr_location,
              member_data, vb_member_data, deleted_num, prev_ttr, record_closed, member_name>>
histvars == <<routed, msg_routed, blocks_read, ended_by, unit_named, directory, stored,
              called, returned, previous>>
vars     == <<objvars, cfgvars, ctlvars, xmivars, tapevars, pdsvars, histvars>>

-----------------------------------------------------------------------------
(* Python values *)

None      == <<-1>>
NoFile    == <<-2>>
EmptyDict == [k \in {} |-> 0]

\* no method that only computes has been called yet
NoCall == [op |-> "none"]

\* open() has not been called yet
NoOpen == [input |-> None, last_input |-> None, pc |-> "idle",
           xmit |-> EmptyDict, tape |-> EmptyDict, msg |-> FALSE]

Min(a, b) == IF a < b THEN a ELSE b
Max(a, b) == IF a > b THEN a ELSE b

\* Python's b[a:c] for 0 <= a: the bytes at indices a .. c-1 that exist.
Slice(b, a, c) == SubSeq(b, a + 1, Min(c, Len(b)))

\* int.from_bytes(b, 'big')
RECURSIVE GetIntBig(_)
GetIntBig(b) == IF b = <<>> THEN 0
                ELSE 256 * GetIntBig(SubSeq(b, 1, Len(b) - 1)) + b[Len(b)]

\* int.from_bytes(b, 'little')
RECURSIVE GetIntLittle(_)
GetIntLittle(b) == IF b = <<>> THEN 0
                   ELSE b[1] + 256 * GetIntLittle(Tail(b))

\* flag & mask == mask, for a mask of one bit
HasBit(flag, mask) == (flag \div mask) % 2 = 1

\* bytes.decode('cp1140'), on the characters the formats name; every other byte
\* stands for its own (non-ASCII) character.
Cp1140(x) ==
    IF x = 64 THEN 32                                \* ' '
    ELSE IF x = 5 THEN 9                             \* '\t'
    ELSE IF x = 37 THEN 10                           \* '\n'
    ELSE IF x = 21 THEN 133                          \* NEL
    ELSE IF x = 65 THEN 160                          \* no-break space
    ELSE IF x \in {11, 12, 13, 28, 29, 30, 31} THEN x \* VT FF CR FS GS RS US
    ELSE IF x = 183 THEN 188                         \* 1/4
    ELSE IF x = 184 THEN 189                         \* 1/2
    ELSE IF x = 185 THEN 190                         \* 3/4
    ELSE IF x = 218 THEN 185                         \* superscript 1
    ELSE IF x = 234 THEN 178                         \* superscript 2
    ELSE IF x = 250 THEN 179                         \* superscript 3
    ELSE IF x = 75 THEN 46                           \* '.'
    ELSE IF x >= 193 /\ x <= 201 THEN x - 128        \* A..I
    ELSE IF x >= 209 /\ x <= 217 THEN x - 135        \* J..R
    ELSE IF x >= 226 /\ x <= 233 THEN x - 143        \* S..Z
    ELSE IF x >= 240 /\ x <= 249 THEN x - 192        \* 0..9
    ELSE x + 1000

Decode(b) == [i \in 1..Len(b) |-> Cp1140(b[i])]

\* str.encode('cp1140') of the same characters (builds inputs)
Ebcdic(c) ==
    IF c = 32 THEN 64
    ELSE IF c = 9 THEN 5
    ELSE IF c = 10 THEN 37
    ELSE IF c = 133 THEN 21
    ELSE IF c = 160 THEN 65
    ELSE IF c \in {11, 12, 13, 28, 29, 30, 31} THEN c
    ELSE IF c = 188 THEN 183
    ELSE IF c = 189 THEN 184
    ELSE IF c = 190 THEN 185
    ELSE IF c = 185 THEN 218
    ELSE IF c = 178 THEN 234
    ELSE IF c = 179 THEN 250
    ELSE IF c = 46 THEN 75
    ELSE IF c >= 65 /\ c <= 73 THEN c + 128
    ELSE IF c >= 74 /\ c <= 82 THEN c + 135
    ELSE IF c >= 83 /\ c <= 90 THEN c + 143
    ELSE IF c >= 48 /\ c <= 57 THEN c + 192
    ELSE c - 1000

Encode(s) == [i \in 1..Len(s) |-> Ebcdic(s[i])]

\* The strings the code compares decoded bytes with, as code points.
S_INMR01 == <<73, 78, 77, 82, 48, 49>>
S_INMR02 == <<73, 78, 77, 82, 48, 50>>
S_INMR03 == <<73, 78, 77, 82, 48, 51>>
S_INMR04 == <<73, 78, 77, 82, 48, 52>>
S_INMR06 == <<73, 78, 77, 82, 48, 54>>
S_VOL1   == <<86, 79, 76, 49>>
S_HDR1   == <<72, 68, 82, 49>>
S_HDR2   == <<72, 68, 82, 50>>
S_EOF1   == <<69, 79, 70, 49>>
S_EOF2   == <<69, 79, 70, 50>>
S_UTL    == <<85, 84, 76>>
S_DOT    == <<46>>

-----------------------------------------------------------------------------
(* Text units (XMIT.__text_units) *)

\* key -> (mnemonic, type), the catalog IBM_text_units
IBM_text_units ==
    (1 :> <<"INMDDNAM", "character">>) @@ (2 :> <<"INMDSNAM", "character">>) @@
    (3 :> <<"INMMEMBR", "character">>) @@ (11 :> <<"INMSECND", "decimal">>) @@
    (12 :> <<"INMDIR", "decimal">>) @@ (34 :> <<"INMEXPDT", "character">>) @@
    (40 :> <<"INMTERM", "character">>) @@ (48 :> <<"INMBLKSZ", "decimal">>) @@
    (60 :> <<"INMDSORG", "hex">>) @@ (66 :> <<"INMLRECL", "decimal">>) @@
    (73 :> <<"INMRECFM", "hex">>) @@ (4097 :> <<"INMTNODE", "character">>) @@
    (4098 :> <<"INMTUID", "character">>) @@ (4113 :> <<"INMFNODE", "character">>) @@
    (4114 :> <<"INMFUID", "character">>) @@ (4128 :> <<"INMLREF", "character">>) @@
    (4129 :> <<"INMLCHG", "character">>) @@ (4130 :> <<"INMCREAT", "character">>) @@
    (4131 :> <<"INMFVERS", "character">>) @@ (4132 :> <<"INMFTIME", "character">>) @@
    (4133 :> <<"INMTTIME", "character">>) @@ (4134 :> <<"INMFACK", "character">>) @@
    (4135 :> <<"INMERRCD", "character">>) @@ (4136 :> <<"INMUTILN", "character">>) @@
    (4137 :> <<"INMUSERP", "character">>) @@ (4138 :> <<"INMRECCT", "character">>) @@
    (4140 :> <<"INMSIZE", "decimal">>) @@ (4143 :> <<"INMNUMF", "decimal">>) @@
    (32786 :> <<"INMTYPE", "hex">>)

K_INMFACK == 4134
K_INMTERM == 40

\* dict[k] = v
Put(d, k, v) == (k :> v) @@ d

\* The value stored for one entry of a unit: by the key's type, then replaced by
\* the joined INMDSNAM once that string is non-empty.
TextUnitValue(key, item, dsnam) ==
    LET name == IBM_text_units[key][1]
        type == IBM_text_units[key][2]
        own  == IF type = "character" THEN Decode(item)
                ELSE IF type = "decimal" THEN GetIntBig(item)
                ELSE IF name = "INMTYPE"
                     THEN (IF GetIntBig(item) = 128 THEN "Data Library"
                           ELSE IF GetIntBig(item) = 64 THEN "Program Library"
                           ELSE "None")
                ELSE item
    IN  IF dsnam # <<>> THEN SubSeq(dsnam, 1, Len(dsnam) - 1) ELSE own

\* The for-loop over the entries of one unit, from entry i on.  st = [loc, tu, dsnam];
\* tlen and item are the entry's length and value, dsnam1 the joined INMDSNAM so far.
RECURSIVE TextUnitEntries(_, _, _, _, _)
TextUnitEntry(rec, key, num, i, st, tlen, item, dsnam1) ==
    TextUnitEntries(rec, key, num, i + 1,
        [loc   |-> IF i = 0 THEN st.loc + 6 + tlen ELSE st.loc + 2 + tlen,
         tu    |-> IF key \in DOMAIN IBM_text_units
                   THEN Put(st.tu, IBM_text_units[key][1], TextUnitValue(key, item, dsnam1))
                   ELSE st.tu,
         dsnam |-> dsnam1])

TextUnitItem(rec, key, num, i, st, tlen, item) ==
    TextUnitEntry(rec, key, num, i, st, tlen, item,
        IF key \in DOMAIN IBM_text_units /\ IBM_text_units[key][1] = "INMDSNAM"
        THEN st.dsnam \o Decode(item) \o S_DOT
        ELSE st.dsnam)

TextUnitLen(rec, key, num, i, st, tlen) ==
    TextUnitItem(rec, key, num, i, st, tlen,
        IF i = 0 THEN Slice(rec, st.loc + 6, st.loc + 6 + tlen)
        ELSE Slice(rec, st.loc + 2, st.loc + 2 + tlen))

TextUnitEntries(rec, key, num, i, st) ==
    IF i >= num THEN st
    ELSE TextUnitLen(rec, key, num, i, st,
            IF i = 0 THEN GetIntBig(Slice(rec, st.loc + 4, st.loc + 6))
            ELSE GetIntBig(Slice(rec, st.loc, st.loc + 2)))

\* The while-loop of __text_units from cursor st.loc on.  Result: [status, tu, msg];
\* status is "ok", "struct.error" (a key or count field shorter than 2 bytes) or
\* "hang" (the cursor does not move: the loop never ends).
RECURSIVE TextUnitsFrom(_, _, _)
TextUnitsNext(rec, st, st2, m1) ==
    IF st2.loc = st.loc
    THEN [status |-> "hang", tu |-> st.tu, msg |-> m1]
    ELSE TextUnitsFrom(rec, st2, m1)

TextUnitsAt(rec, st, m, key, num) ==
    LET zero40 == key = K_INMTERM /\ num = 0
        skip   == (IF key = K_INMFACK /\ num = 0 THEN 4 ELSE 0) + (IF zero40 THEN 4 ELSE 0)
    IN  TextUnitsNext(rec, st,
                      TextUnitEntries(rec, key, num, 0, [st EXCEPT !.loc = @ + skip]),
                      IF zero40 THEN TRUE ELSE m)

TextUnitsFrom(rec, st, m) ==
    IF st.loc >= Len(rec) THEN [status |-> "ok", tu |-> st.tu, msg |-> m]
    ELSE IF Len(Slice(rec, st.loc, st.loc + 2)) < 2 \/ Len(Slice(rec, st.loc + 2, st.loc + 4)) < 2
    THEN [status |-> "struct.error", tu |-> st.tu, msg |-> m]
    ELSE TextUnitsAt(rec, st, m, GetIntBig(Slice(rec, st.loc, st.loc + 2)),
                     GetIntBig(Slice(rec, st.loc + 2, st.loc + 4)))

\* __text_units(text_records), given the current self.msg
TextUnits(rec, m) == TextUnitsFrom(rec, [loc |-> 0, tu |-> EmptyDict, dsnam |-> <<>>], m)

-----------------------------------------------------------------------------
(* DSORG and RECFM (XMIT.get_dsorg, XMIT.get_recfm); strings are sequences of tokens *)

get_dsorg(dsorg) ==
    LET d    == GetIntBig(dsorg)
        org0 == IF HasBit(d, 512) THEN <<"PO">>
                ELSE IF HasBit(d, 4096) THEN <<"BTAM">>
                ELSE IF HasBit(d, 8192) THEN <<"DA">>
                ELSE IF HasBit(d, 16384) THEN <<"PS">>
                ELSE IF HasBit(d, 32768) THEN <<"ISAM">>
                ELSE <<"?">>
    IN  IF HasBit(d, 1) THEN org0 \o <<"U">> ELSE org0

\* recfm is a non-empty byte string (recfm[0] raises IndexError otherwise)
get_recfm(rf) ==
    LET flag == rf[1]
        top  == (flag \div 64) % 4
        r0   == IF top = 1 THEN <<"V">> ELSE IF top = 2 THEN <<"F">>
                ELSE IF top = 3 THEN <<"U">> ELSE <<"?">>
        r1   == IF HasBit(flag, 16) THEN r0 \o <<"B">> ELSE r0
        r2   == IF HasBit(flag, 4) THEN r1 \o <<"A">> ELSE r1
        r3   == IF HasBit(flag, 2) THEN r2 \o <<"M">> ELSE r2
    IN  IF HasBit(flag, 8) THEN r3 \o <<"S">> ELSE r3

\* 'F' in recfm
InStr(c, s) == \E i \in 1..Len(s) : s[i] = c

-----------------------------------------------------------------------------
(* Control records (XMIT.parse_INMR01 .. parse_INMR04).  Each returns          *)
(* [err, xmit, msg, c02, c03]: the exception raised ("" when none, "hang" when *)
(* the call never returns) and the object fields as the call leaves them.      *)

Has(d, k) == k \in DOMAIN d

CtlResult(e, x, m, c02, c03) == [err |-> e, xmit |-> x, msg |-> m, c02 |-> c02, c03 |-> c03]

TuError(status) == IF status = "ok" THEN "" ELSE status

\* The inputs of this model carry no INMFTIME unit; its reformatting is not modelled.
parse_INMR01(rec, x, m, c02, c03) ==
    LET r == TextUnits(rec, m)
    IN  IF r.status # "ok" THEN CtlResult(TuError(r.status), x, r.msg, c02, c03)
        ELSE CtlResult("", Put(x, "INMR01", r.tu), r.msg, c02, c03)

\* INMDSORG and INMRECFM replaced by their symbolic strings; KeyError when a
\* unit is missing, IndexError for an empty INMRECFM value.
DecodeOrgFm(tu) ==
    IF ~Has(tu, "INMDSORG") THEN [err |-> "KeyError", tu |-> tu]
    ELSE LET tu1 == Put(tu, "INMDSORG", get_dsorg(tu["INMDSORG"]))
         IN  IF ~Has(tu1, "INMRECFM") THEN [err |-> "KeyError", tu |-> tu1]
             ELSE IF tu1["INMRECFM"] = <<>> THEN [err |-> "IndexError", tu |-> tu1]
             ELSE [err |-> "", tu |-> Put(tu1, "INMRECFM", get_recfm(tu1["INMRECFM"]))]

parse_INMR02(rec, x, m, c02, c03) ==
    LET n   == c02 + 1
        r   == TextUnits(Slice(rec, 4, Len(rec)), m)
        x1  == IF Has(x, "INMR02") THEN x ELSE Put(x, "INMR02", EmptyDict)
        d   == DecodeOrgFm(r.tu)
        tu2 == IF d.err = "" THEN Put(d.tu, "numfile", GetIntBig(Slice(rec, 0, 4))) ELSE d.tu
    IN  IF Len(Slice(rec, 0, 4)) < 4 THEN CtlResult("struct.error", x, m, n, c03)
        ELSE IF r.status # "ok" THEN CtlResult(TuError(r.status), x1, r.msg, n, c03)
        ELSE CtlResult(d.err, Put(x1, "INMR02", Put(x1["INMR02"], n, tu2)), r.msg, n, c03)

parse_INMR03(rec, x, m, c02, c03) ==
    LET n   == c03 + 1
        r   == TextUnits(rec, m)
        x1  == IF Has(x, "INMR03") THEN x ELSE Put(x, "INMR03", EmptyDict)
        d   == DecodeOrgFm(r.tu)
    IN  IF r.status # "ok" THEN CtlResult(TuError(r.status), x1, r.msg, c02, n)
        ELSE CtlResult(d.err, Put(x1, "INMR03", Put(x1["INMR03"], n, d.tu)), r.msg, c02, n)

parse_INMR04(rec, x, m, c02, c03) == CtlResult("", x, m, c02, c03)

\* The control branch of the segment loop: dispatch on the record name.
ControlRecord(record_type, rec, x, m, c02, c03) ==
    IF record_type = S_INMR01 THEN parse_INMR01(rec, x, m, c02, c03)
    ELSE IF record_type = S_INMR02 THEN parse_INMR02(rec, x, m, c02, c03)
    ELSE IF record_type = S_INMR03 THEN parse_INMR03(rec, x, m, c02, c03)
    ELSE IF record_type = S_INMR04 THEN parse_INMR04(rec, x, m, c02, c03)
    ELSE CtlResult("", x, m, c02, c03)

-----------------------------------------------------------------------------
(* Framing detection and open() (XMIT.open, filetype_is_xmi, filetype_is_tape, *)
(* read_file, read_xmit_file, read_tape_file)                                  *)

\* Python truthiness of None / '' / b''
Falsy(v) == v = None \/ v = <<>>

\* current_file[2:8].decode(self.ebcdic) == 'INMR01'
filetype_is_xmi(current_file) == Decode(Slice(current_file, 2, 8)) = S_INMR01

\* self.__get_int(current_file[2:4]) == 0
filetype_is_tape(current_file) == GetIntBig(Slice(current_file, 2, 4)) = 0

\* Path(self.filename).stem.upper() of the one path of the model, "f.xmi"
FileName == <<102, 46, 120, 109, 105>>
StemUpper(fn) == <<70>>

\* The override name passed as infile
OverrideName == <<79>>

Raise(e) == /\ pc' = "raised"
            /\ err' = e

\* What open() does before it parses: [err, file_object].
OpenPrologue(arg) ==
    IF Falsy(filename) /\ Falsy(file_object)
    THEN [err |-> "Exception: no file or object", file_object |-> file_object]
    ELSE IF Falsy(file_object) /\ disk = NoFile
    THEN [err |-> "FileNotFoundError", file_object |-> file_object]
    ELSE LET fo == IF Falsy(file_object) THEN disk ELSE file_object
         IN  IF arg # None
             THEN [err |-> "AttributeError: set_infile", file_object |-> fo]
             ELSE [err |-> "", file_object |-> fo]

\* The start of parse_xmi (after open() has set xmit_object to file_object):
\* the bytes it will parse, or the exception of read_xmit_file.
ParseXmiSource(fo) ==
    IF Falsy(fo) /\ ~Falsy(fo)      \* `not self.xmit_object and self.file_object`
    THEN [err |-> "", obj |-> fo]
    ELSE IF filename = None THEN [err |-> "TypeError: open(None)", obj |-> fo]
    ELSE IF disk = NoFile THEN [err |-> "FileNotFoundError", obj |-> fo]
    ELSE IF ~filetype_is_xmi(Slice(disk, 0, 10))
    THEN [err |-> "Exception: not an XMI file", obj |-> disk]
    ELSE [err |-> "", obj |-> disk]

\* The start of parse_tape: the bytes it will parse, or the exception of read_tape_file.
ParseTapeSource(fo) ==
    IF ~Falsy(fo) THEN [err |-> "", obj |-> fo]
    ELSE IF filename = None THEN [err |-> "TypeError: open(None)", obj |-> fo]
    ELSE IF disk = NoFile THEN [err |-> "FileNotFoundError", obj |-> fo]
    ELSE IF ~filetype_is_tape(Slice(disk, 0, 4))
    THEN [err |-> "Exception: not an AWS/HET file", obj |-> disk]
    ELSE [err |-> "", obj |-> disk]

\* Which parser open() enters for the buffer fo
Dispatch(fo) ==
    IF filetype_is_xmi(Slice(fo, 0, 10)) THEN "xmi"
    ELSE IF filetype_is_tape(Slice(fo, 0, 4)) THEN "tape"
    ELSE "unknown"

ResetXmiLocals == /\ loc' = 0
                  /\ record_data' = <<>>
                  /\ routed' = EmptyDict
                  /\ msg_routed' = <<>>
                  /\ unit_named' = {}

ResetTapeLocals == /\ loc' = 0
                   /\ tape_file' = <<>>
                   /\ tape_text' = <<>>
                   /\ UTL' = <<>>
                   /\ eof_marker' = FALSE
                   /\ eor_marker' = FALSE
                   /\ file_num' = 1
                   /\ HDR1' = EmptyDict
                   /\ HDR2' = EmptyDict
                   /\ volume_label' = EmptyDict
                   /\ blocks_read' = <<>>
                   /\ ended_by' = {}

\* open(infile=arg), up to the first iteration of the parser's loop; it can be
\* called on a new object and again after an earlier call has returned or raised
Open(arg) ==
    /\ pc \in {"idle", "done", "raised"}
    /\ opens' = opens + 1
    /\ UNCHANGED <<filename, disk, infile, msg, INMR02_count, INMR03_count, filelocation,
                   cfgvars, pdsvars, directory, called, returned, stored>>
    /\ LET p == OpenPrologue(arg)
           d == Dispatch(p.file_object)
       IN  /\ file_object' = p.file_object
           /\ previous' = [input |-> p.file_object, last_input |-> previous.input,
                           pc |-> pc, xmit |-> xmit, tape |-> tape, msg |-> msg]
           /\ IF p.err # ""
              THEN /\ Raise(p.err)
                   /\ UNCHANGED <<xmit_object, tape_object, xmit, tape, xmivars, tapevars,
                                  routed, msg_routed, unit_named, blocks_read, ended_by>>
              ELSE IF d = "xmi"
              THEN LET src == ParseXmiSource(p.file_object)
                   IN  /\ xmit' = EmptyDict
                       /\ xmit_object' = src.obj
                       /\ IF src.err # "" THEN Raise(src.err)
                          ELSE IF Decode(Slice(src.obj, 2, 8)) # S_INMR01
                          THEN Raise("Exception: no INMR01")
                          ELSE pc' = "parse_xmi" /\ err' = ""
                       /\ ResetXmiLocals
                       /\ UNCHANGED <<tape_object, tape, tapevars, blocks_read, ended_by>>
              ELSE IF d = "tape"
              THEN LET src == ParseTapeSource(p.file_object)
                   IN  /\ tape_object' = src.obj
                       /\ IF src.err # ""
                          THEN Raise(src.err) /\ tape' = EmptyDict
                          ELSE pc' = "parse_tape" /\ err' = "" /\ tape' = [file |-> EmptyDict]
                       /\ ResetTapeLocals
                       /\ UNCHANGED <<xmit_object, xmit, record_data, routed, msg_routed,
                                      unit_named>>
              ELSE /\ Raise("Exception: File not XMIT or Virtual Tape")
                   /\ UNCHANGED <<xmit_object, tape_object, xmit, tape, xmivars, tapevars,
                                  routed, msg_routed, unit_named, blocks_read, ended_by>>

-----------------------------------------------------------------------------
(* The segment loop of XMIT.parse_xmi *)

DictLen(d) == Cardinality(DOMAIN d)

DataResult(e, x, fl, rd, route, dsn) ==
    [err |-> e, xmit |-> x, filelocation |-> fl, record_data |-> rd, route |-> route, dsn |-> dsn]

\* The message branch: the segment's payload goes to xmit['message']['file'].
MessageSegment(payload) ==
    LET x0 == IF Has(xmit, "message") THEN xmit
              ELSE Put(xmit, "message", [file |-> <<>>])
        x1 == IF Has(xmit, "message") THEN xmit
              ELSE Put(xmit, "message", [file |-> <<>>, lrecl |-> xmit["INMR03"][1]["INMLRECL"]])
    IN  IF ~Has(xmit, "message")
           /\ (~Has(xmit["INMR03"], 1) \/ ~Has(xmit["INMR03"][1], "INMLRECL"))
        THEN DataResult("KeyError", x0, filelocation, record_data, "raise", None)
        ELSE DataResult("",
                 Put(x1, "message", [x1["message"] EXCEPT !.file = @ \o payload]),
                 2, record_data, "message", None)

\* The dataset branch: the payload joins record_data, which is appended to the
\* dataset's records when the segment carries 0x40.
DatasetSegment(payload, flag) ==
    LET fl   == filelocation
        noname == ~Has(xmit["INMR02"][fl], "INMDSNAM")
        x1   == IF noname
                THEN Put(xmit, "INMR02", Put(xmit["INMR02"], fl,
                         Put(xmit["INMR02"][fl], "INMDSNAM", StemUpper(filename))))
                ELSE xmit
        dsn  == x1["INMR02"][fl]["INMDSNAM"]
        x2   == IF Has(x1, "file") THEN x1 ELSE Put(x1, "file", EmptyDict)
        x3   == IF Has(x2["file"], dsn) THEN x2
                ELSE Put(x2, "file", Put(x2["file"], dsn, [data |-> <<>>]))
        rd   == record_data \o payload
        x4   == IF HasBit(flag, 64)
                THEN Put(x3, "file", Put(x3["file"], dsn,
                         [x3["file"][dsn] EXCEPT !.data = Append(@, rd)]))
                ELSE x3
    IN  IF ~Has(xmit["INMR02"], fl)
        THEN DataResult("KeyError", xmit, fl, record_data, "raise", None)
        ELSE IF noname /\ filename = None
        THEN DataResult("TypeError: Path(None)", xmit, fl, record_data, "raise", None)
        ELSE IF infile # None
        THEN DataResult("NameError: infile", x1, fl, record_data, "raise", None)
        ELSE DataResult("", x4, fl, IF HasBit(flag, 64) THEN <<>> ELSE rd, "dataset", dsn)

\* DataSegment with the message ending at the second INMR02 instead of the second INMR03
DataSegmentByINMR02(payload, flag) ==
    IF ~Has(xmit, "INMR02") \/ ~Has(xmit["INMR02"], 1)
    THEN DataResult("KeyError", xmit, filelocation, record_data, "raise", None)
    ELSE IF ~Has(xmit["INMR02"][1], "INMDSNAM") /\ msg
    THEN IF ~Has(xmit, "INMR03")
         THEN DataResult("KeyError", xmit, filelocation, record_data, "raise", None)
         ELSE IF DictLen(xmit["INMR02"]) < 2
         THEN MessageSegment(payload)
         ELSE DatasetSegment(payload, flag)
    ELSE DatasetSegment(payload, flag)

\* A segment without 0x20: message or dataset, by the state of the control records.
DataSegment(payload, flag) ==
    IF ~Has(xmit, "INMR02") \/ ~Has(xmit["INMR02"], 1)
    THEN DataResult("KeyError", xmit, filelocation, record_data, "raise", None)
    ELSE IF ~Has(xmit["INMR02"][1], "INMDSNAM") /\ msg
    THEN IF ~Has(xmit, "INMR03")
         THEN DataResult("KeyError", xmit, filelocation, record_data, "raise", None)
         ELSE IF DictLen(xmit["INMR03"]) < 2
         THEN MessageSegment(payload)
         ELSE DatasetSegment(payload, flag)
    ELSE DatasetSegment(payload, flag)

\* One iteration of `while loc < len(self.xmit_object)`
XmiSegment ==
    /\ pc = "parse_xmi"
    /\ loc < Len(xmit_object)
    /\ LET section_length == GetIntBig(Slice(xmit_object, loc, loc + 1))
           flag    == GetIntBig(Slice(xmit_object, loc + 1, loc + 2))
           payload == Slice(xmit_object, loc + 2, loc + section_length)
       IN  IF ~HasBit(flag, 32)
           THEN \E r \in {DataSegment(payload, flag)} :
                    /\ xmit' = r.xmit
                    /\ filelocation' = r.filelocation
                    /\ record_data' = r.record_data
                    /\ routed' = IF r.route = "dataset"
                                 THEN Put(routed, r.dsn,
                                          (IF Has(routed, r.dsn) THEN routed[r.dsn] ELSE <<>>) \o payload)
                                 ELSE routed
                    /\ msg_routed' = IF r.route = "message" THEN msg_routed \o payload ELSE msg_routed
                    /\ IF r.err # "" THEN Raise(r.err) /\ loc' = loc
                       ELSE IF section_length = 0
                       THEN \* the cursor stays on the segment: the loop never ends
                            pc' = "hang" /\ loc' = loc /\ UNCHANGED err
                       ELSE /\ loc' = loc + section_length
                            /\ UNCHANGED <<pc, err>>
                    /\ UNCHANGED <<msg, INMR02_count, INMR03_count, unit_named>>
           ELSE LET record_type == Decode(Slice(xmit_object, loc + 2, loc + 8))
                    rec == Slice(xmit_object, loc + 8, loc + section_length)
                IN  \E r \in {ControlRecord(record_type, rec, xmit, msg, INMR02_count, INMR03_count)} :
                    /\ xmit' = r.xmit
                    /\ msg' = r.msg
                    /\ INMR02_count' = r.c02
                    /\ INMR03_count' = r.c03
                    /\ unit_named' = IF record_type = S_INMR02 /\ r.err = ""
                                        /\ Has(r.xmit["INMR02"][r.c02], "INMDSNAM")
                                     THEN unit_named \cup {r.c02}
                                     ELSE unit_named
                    /\ IF r.err = "hang" THEN pc' = "hang" /\ err' = "" /\ loc' = loc
                       ELSE IF r.err # "" THEN Raise(r.err) /\ loc' = loc
                       ELSE IF record_type = S_INMR06
                       THEN pc' = "get_xmi_files" /\ loc' = loc /\ UNCHANGED err
                       ELSE IF section_length = 0
                       THEN pc' = "hang" /\ loc' = loc /\ UNCHANGED err
                       ELSE loc' = loc + section_length /\ UNCHANGED <<pc, err>>
                    /\ UNCHANGED <<filelocation, record_data, routed, msg_routed>>
    /\ UNCHANGED <<filename, disk, file_object, infile, xmit_object, tape_object, tape, opens,
                   cfgvars, tapevars, pdsvars, blocks_read, ended_by, directory, called, returned, previous, stored>>

\* The loop ends because the cursor has passed the buffer (no INMR06 met)
XmiEnd ==
    /\ pc = "parse_xmi"
    /\ loc >= Len(xmit_object)
    /\ pc' = "get_xmi_files"
    /\ UNCHANGED <<objvars, cfgvars, err, opens, xmivars, tapevars, pdsvars, histvars>>

-----------------------------------------------------------------------------
(* Text synthesis (XMIT.convert_text_file) *)

\* Python's s[a:c] with negative indices counted from the end
PySlice(s, a, c) ==
    LET n  == Len(s)
        a1 == IF a < 0 THEN Max(0, n + a) ELSE Min(a, n)
        c1 == IF c < 0 THEN Max(0, n + c) ELSE Min(c, n)
    IN  SubSeq(s, a1 + 1, c1)

\* The characters str.rstrip() removes, among those Cp1140 yields
IsSpace(c) == c \in {9, 10, 11, 12, 13, 28, 29, 30, 31, 32, 133, 160}

RECURSIVE RStrip(_)
RStrip(s) == IF s # <<>> /\ IsSpace(s[Len(s)]) THEN RStrip(SubSeq(s, 1, Len(s) - 1)) ELSE s

\* str.isnumeric(): a non-empty string of numeric characters.  Besides 0-9,
\* cp1140 yields the superscripts (bytes 0xDA 0xEA 0xFA) and the fractions
\* (bytes 0xB7 0xB8 0xB9).
IsNumericChar(c) == (c >= 48 /\ c <= 57) \/ c \in {178, 179, 185, 188, 189, 190}
IsNumeric(s) == s # <<>> /\ \A i \in 1..Len(s) : IsNumericChar(s[i])

NL == <<10>>

\* The for-loop over range(0, len(asciifile), recl), from index i on: seq_file
RECURSIVE TextLines(_, _, _, _)
TextLines(asciifile, recl, i, un) ==
    IF i >= Len(asciifile) THEN <<>>
    ELSE LET line == IF IsNumeric(PySlice(asciifile, i + recl - 8, i + recl)) /\ un
                     THEN RStrip(PySlice(asciifile, i, i + recl - 8))
                     ELSE RStrip(PySlice(asciifile, i, i + recl))
         IN  <<line>> \o TextLines(asciifile, recl, i + recl, un)

\* '\n'.join(lines)
RECURSIVE Join(_)
Join(lines) == IF lines = <<>> THEN <<>>
               ELSE IF Len(lines) = 1 THEN lines[1]
               ELSE lines[1] \o NL \o Join(Tail(lines))

ConvertText(ebcdic_text, recl, un) ==
    LET asciifile == Decode(ebcdic_text)
    IN  IF recl < 1 THEN asciifile \o NL
        ELSE Join(TextLines(asciifile, recl, 0, un)) \o NL

convert_text_file(ebcdic_text, recl) == ConvertText(ebcdic_text, recl, unnum)

-----------------------------------------------------------------------------
(* Content classification (magic.from_buffer, mimetypes.guess_extension) *)

\* What the external sniffer may answer for a payload: (mime type, charset)
Sniffs(data) ==
    IF data = <<>> THEN {[filetype |-> "application/x-empty", datatype |-> "binary"]}
    ELSE {[filetype |-> "text/plain", datatype |-> "us-ascii"],
          [filetype |-> "application/octet-stream", datatype |-> "ebcdic"],
          [filetype |-> "application/octet-stream", datatype |-> "binary"]}

\* mimetypes.guess_extension(filetype), else "." + the token after "/"
Extension(filetype) ==
    IF filetype = "text/plain" THEN ".txt"
    ELSE IF filetype = "application/octet-stream" THEN ".bin"
    ELSE ".x-empty"

\* b''.join(records)
RECURSIVE Concat(_)
Concat(records) == IF records = <<>> THEN <<>> ELSE Head(records) \o Concat(Tail(records))

\* The eye-catcher test of iebcopy_record_1 (it raises when this is false)
EyeCatcher == 13266191
IsIebcopy(first_record) ==
    /\ \/ GetIntBig(Slice(first_record, 1, 4)) = EyeCatcher
       \/ GetIntBig(Slice(first_record, 9, 12)) = EyeCatcher
    /\ Len(first_record) <= 64

\* filetype, extension after the nested-XMI override and force (XMI and tape order)
Classify(sn, first, frc) ==
    LET nested == /\ sn.filetype = "application/octet-stream"
                  /\ Len(first) >= 8
                  /\ Decode(Slice(first, 2, 8)) = S_INMR01
    IN  [filetype  |-> IF nested THEN "application/xmit" ELSE sn.filetype,
         datatype  |-> sn.datatype,
         extension |-> IF frc THEN ".txt"
                       ELSE IF nested THEN ".xmi" ELSE Extension(sn.filetype)]

-----------------------------------------------------------------------------
(* XMIT.get_xmi_files, for a dataset that is not an IEBCOPY unload *)

\* The lookups at the head of get_xmi_files: KeyError when one is missing
XmiFilesLookupOk(n) ==
    /\ Has(xmit, "INMR02") /\ Has(xmit["INMR02"], n) /\ Has(xmit["INMR02"][n], "INMDSNAM")
    /\ Has(xmit, "file") /\ Has(xmit["file"], xmit["INMR02"][n]["INMDSNAM"])
    /\ Has(xmit, "INMR03") /\ Has(xmit["INMR03"], n) /\ Has(xmit["INMR03"][n], "INMLRECL")
    /\ Has(xmit["INMR02"][n], "INMRECFM")

GetXmiFiles ==
    /\ pc = "get_xmi_files"
    /\ LET n == IF msg THEN 2 ELSE 1
       IN  IF ~XmiFilesLookupOk(n)
           THEN Raise("KeyError") /\ UNCHANGED xmit
           ELSE
             LET fname   == xmit["INMR02"][n]["INMDSNAM"]
                 dsnfile == xmit["file"][fname].data
                 recl    == xmit["INMR03"][n]["INMLRECL"]
                 rfm     == xmit["INMR02"][n]["INMRECFM"]
                 joined  == Concat(dsnfile)
             IN  \E sn \in Sniffs(joined) :
                   LET istext == sn.filetype = "text/plain" \/ sn.datatype # "binary"
                       c      == Classify(sn, IF dsnfile = <<>> THEN <<>> ELSE dsnfile[1], force)
                       base   == [data |-> dsnfile, filetype |-> c.filetype,
                                  datatype |-> c.datatype, extension |-> c.extension]
                       text   == IF InStr("F", rfm) THEN convert_text_file(joined, recl)
                                 ELSE convert_text_file(joined, manual_recordlength)
                       hastext == istext /\ (InStr("F", rfm) \/ ~InStr("V", rfm))
                       entry  == IF hastext THEN [text |-> text] @@ base ELSE base
                   IN  IF sn.filetype = "application/octet-stream" /\ dsnfile = <<>>
                       THEN Raise("IndexError") /\ UNCHANGED xmit
                       ELSE IF istext /\ ~InStr("F", rfm) /\ InStr("V", rfm) /\ dsnfile # <<>>
                       THEN Raise("KeyError: text") /\ UNCHANGED xmit
                       ELSE /\ xmit' = Put(xmit, "file", Put(xmit["file"], fname, entry))
                            /\ IF dsnfile # <<>> /\ IsIebcopy(dsnfile[1])
                               THEN pc' = "get_xmi_files_pds" /\ UNCHANGED err
                               ELSE pc' = "done" /\ UNCHANGED err
    /\ UNCHANGED <<filename, disk, file_object, infile, xmit_object, tape_object, tape, msg,
                   INMR02_count, INMR03_count, filelocation, cfgvars, opens, xmivars, tapevars,
                   pdsvars, histvars>>

-----------------------------------------------------------------------------
(* Inputs: XMI buffers built from segments *)

\* big-endian halfword / word
U16(n) == <<n \div 256, n % 256>>
U32(n) == <<0, 0>> \o U16(n)

\* One text unit: key, count, then (length, value) per entry
RECURSIVE TuEntries(_)
TuEntries(vals) == IF vals = <<>> THEN <<>>
                   ELSE U16(Len(Head(vals))) \o Head(vals) \o TuEntries(Tail(vals))
TextUnit(key, vals) == U16(key) \o U16(Len(vals)) \o TuEntries(vals)

\* One segment: length byte (header included), flag byte, payload
Segment(flag, payload) == <<Len(payload) + 2, flag>> \o payload

TU_DSORG == TextUnit(60, <<U16(16384)>>)          \* INMDSORG = PS
TU_RECFM == TextUnit(73, <<U16(32768)>>)          \* INMRECFM = F
TU_RECFMV == TextUnit(73, <<U16(16384)>>)         \* INMRECFM = V
TU_LRECL == TextUnit(66, <<(<<2>>)>>)             \* INMLRECL = 2
TU_DSNAM == TextUnit(2, <<Encode(<<65>>), Encode(<<66>>)>>)   \* INMDSNAM = A.B
TU_TERM  == TextUnit(40, <<>>)                    \* INMTERM, count 0: a message follows
S_USER1  == <<85, 83, 69, 82, 49>>
TU_FUID  == TextUnit(4114, <<Encode(S_USER1)>>)   \* INMFUID = USER1

SegKinds == {"R02n", "R02v", "R02m", "R03", "D80", "D40", "R06"}

\* The segment of kind k at position i of the buffer; a data segment's payload names i
SegmentOf(k, i) ==
    IF k = "R01" THEN Segment(224, Encode(S_INMR01))
    ELSE IF k = "R01u" THEN Segment(224, Encode(S_INMR01) \o TU_FUID)
    ELSE IF k = "R02n" THEN Segment(224, Encode(S_INMR02) \o U32(1) \o TU_DSORG \o TU_RECFM \o TU_DSNAM)
    ELSE IF k = "R02v" THEN Segment(224, Encode(S_INMR02) \o U32(1) \o TU_DSORG \o TU_RECFMV \o TU_DSNAM)
    ELSE IF k = "R02m" THEN Segment(224, Encode(S_INMR02) \o U32(1) \o TU_DSORG \o TU_RECFM \o TU_TERM)
    ELSE IF k = "R03" THEN Segment(224, Encode(S_INMR03) \o TU_DSORG \o TU_RECFM \o TU_LRECL)
    ELSE IF k = "R06" THEN Segment(224, Encode(S_INMR06))
    ELSE IF k = "P0" THEN <<0, 0>>                    \* zero padding: length byte 0
    ELSE IF k = "P1" THEN <<1>>                       \* length byte 1
    ELSE IF k = "D80" THEN Segment(128, <<100 + i>>)
    ELSE Segment(64, <<100 + i>>)

RECURSIVE XmiBufferFrom(_, _)
XmiBufferFrom(kinds, i) ==
    IF i > Len(kinds) THEN <<>>
    ELSE SegmentOf(kinds[i], i) \o XmiBufferFrom(kinds, i + 1)

\* INMR01 followed by the segments of `kinds`
XmiBuffer(kinds) == SegmentOf("R01", 0) \o XmiBufferFrom(kinds, 1)

MaxSegs == 4

SeqsUpTo(S, n) == UNION {[1..k -> S] : k \in 0..n}

\* The control records a transmission with a message starts with: the INMR02 of
\* the message, then the INMR02 of the dataset
Prefixes == {<<>>, <<"R02m", "R02n">>}

\* The empty transmission: INMR01 with the sender's user id, then INMR06
EmptyXmi == SegmentOf("R01u", 0) \o SegmentOf("R06", 1)

XmiInputs == {XmiBuffer(pre \o kinds) : pre \in Prefixes, kinds \in SeqsUpTo(SegKinds, MaxSegs)}
             \cup {EmptyXmi}

-----------------------------------------------------------------------------
(* The XMI specification: one object, constructed with a file name, opens one *)
(* XMI file.                                                                   *)

IdleLocals ==
    /\ loc = 0 /\ record_data = <<>>
    /\ tape_file = <<>> /\ tape_text = <<>> /\ UTL = <<>> /\ eof_marker = FALSE /\ eor_marker = FALSE /\ file_num = 1
    /\ HDR1 = EmptyDict /\ HDR2 = EmptyDict /\ volume_label = EmptyDict
    /\ dsname = None /\ member_blocks = <<>> /\ member_dict = EmptyDict /\ directory = <<>>
    /\ sorted_ttrs = <<>> /\ ttrs = EmptyDict /\ ttr_location = 0 /\ member_data = <<>>
    /\ vb_member_data = <<>> /\ deleted_num = 1 /\ prev_ttr = 0 /\ record_closed = FALSE
    /\ member_name = None
    /\ routed = EmptyDict /\ msg_routed = <<>> /\ blocks_read = <<>>
    /\ ended_by = {} /\ unit_named = {} /\ stored = <<>>
    /\ called = NoCall /\ returned = <<>> /\ previous = NoOpen

\* XMIT.__init__
Constructed ==
    /\ file_object = None /\ xmit_object = <<>> /\ tape_object = <<>>
    /\ xmit = EmptyDict /\ tape = EmptyDict
    /\ msg = FALSE /\ INMR02_count = 0 /\ INMR03_count = 0 /\ filelocation = 1
    /\ pc = "idle" /\ err = "" /\ opens = 0
    /\ IdleLocals

InitXmi ==
    /\ filename = FileName
    /\ disk \in XmiInputs
    /\ infile = None
    /\ force = FALSE /\ unnum = TRUE /\ binary = FALSE /\ manual_recordlength = 80
    /\ Constructed

OpenOnce == opens = 0 /\ Open(None)

NextXmi == OpenOnce \/ XmiSegment \/ XmiEnd \/ GetXmiFiles

SpecXmi == InitXmi /\ [][NextXmi]_vars

-----------------------------------------------------------------------------
(* Properties of parse_xmi *)

\* parse_xmi has returned without an exception
XmiParsed == pc = "get_xmi_files"

\* C2: when parse_xmi has returned, the concatenation of each dataset's logical
\* records equals the concatenation, in arrival order, of the payloads of the
\* data segments routed to that dataset, the segments after the last one
\* flagged 0x40 included.
C2_RoundTrip ==
    XmiParsed => \A d \in DOMAIN routed : Concat(xmit["file"][d].data) = routed[d]

\* The state of the XMI archive the routing of a data segment is read from
MsgBuf(x) == IF Has(x, "message") THEN x["message"].file ELSE <<>>
Files(x)  == IF Has(x, "file") THEN x["file"] ELSE EmptyDict
Records(x, d) == IF Has(Files(x), d) THEN Files(x)[d].data ELSE <<>>

\* The next segment of the loop is a data segment; its flag and payload
NextFlag    == GetIntBig(Slice(xmit_object, loc + 1, loc + 2))
NextPayload == Slice(xmit_object, loc + 2, loc + GetIntBig(Slice(xmit_object, loc, loc + 1)))
NextIsData  == pc = "parse_xmi" /\ loc < Len(xmit_object) /\ ~HasBit(NextFlag, 32)

\* The step appends the payload to the message buffer and to no dataset
ToMessage ==
    /\ MsgBuf(xmit') = MsgBuf(xmit) \o NextPayload
    /\ Files(xmit') = Files(xmit)
    /\ record_data' = record_data

\* The step appends the payload to a dataset (to its open record, which joins the
\* dataset's records when the segment carries 0x40) and not to the message buffer
ToDataset ==
    /\ MsgBuf(xmit') = MsgBuf(xmit)
    /\ IF HasBit(NextFlag, 64)
       THEN /\ record_data' = <<>>
            /\ \E d \in DOMAIN Files(xmit') :
                  Records(xmit', d) = Append(Records(xmit, d), record_data \o NextPayload)
       ELSE record_data' = record_data \o NextPayload

\* The first INMR02 carried no INMDSNAM text unit and a text unit 0x0028 with
\* count 0 has been seen
MessageExpected == INMR02_count >= 1 /\ 1 \notin unit_named /\ msg

-----------------------------------------------------------------------------
(* Virtual tapes: block decoding and labels (XMIT.parse_tape) *)

Repeat(c, n) == [i \in 1..n |-> c]

\* zlib.decompress on the streams the model's tapes carry (computed with zlib):
\* two bytes, and 200 bytes 0xC1.  Any other buffer of the model is no zlib
\* stream (zlib.error), the empty buffer included.
ZlibStreams ==
    (<<120, 156, 59, 120, 112, 120, 0, 0, 53, 193, 150, 201>> :> Repeat(193, 200))
    @@ (<<120, 156, 59, 116, 24, 0, 2, 73, 1, 134>> :> <<194, 195>>)

zlib_decompress(b) ==
    IF b \in DOMAIN ZlibStreams THEN [err |-> "", data |-> ZlibStreams[b]]
    ELSE [err |-> "zlib.error", data |-> <<>>]

\* bz2.decompress on the streams the model's tapes carry (computed with bz2):
\* the stream of the two bytes 0xC4 0xC5; the empty buffer decompresses to
\* nothing; any other buffer of the model is an invalid stream (OSError).
Bz2Streams ==
    (<<66, 90, 104, 57, 49, 65, 89, 38, 83, 89, 51, 233, 245, 13, 0, 0, 0, 0, 4, 6, 0, 32,
       0, 33, 0, 130, 177, 119, 36, 83, 133, 9, 3, 62, 159, 80, 208>> :> <<196, 197>>)
    @@ (<<>> :> <<>>)

bz2_decompress(b) ==
    IF b \in DOMAIN Bz2Streams THEN [err |-> "", data |-> Bz2Streams[b]]
    ELSE [err |-> "OSError: Invalid data stream", data |-> <<>>]

\* What a block adds to the accumulator: bzip2 is tested before zlib
TapeDecode(flags, raw) ==
    IF HasBit(flags, 512) THEN bz2_decompress(raw)
    ELSE IF HasBit(flags, 256) THEN zlib_decompress(raw)
    ELSE [err |-> "", data |-> raw]

\* eof_marker / eor_marker after the header of a block has been read
TapeFlags(flags, eof, eor) ==
    [eof |-> IF HasBit(flags, 32768) THEN FALSE ELSE (eof \/ HasBit(flags, 16384)),
     eor |-> IF HasBit(flags, 32768) THEN FALSE ELSE (eor \/ HasBit(flags, 8192))]

\* None of NEWREC, EOF, ENDREC is set: parse_tape raises
Unrecognized(flags) == ~HasBit(flags, 32768) /\ ~HasBit(flags, 16384) /\ ~HasBit(flags, 8192)

RECURSIVE LStrip(_)
LStrip(s) == IF s # <<>> /\ IsSpace(s[1]) THEN LStrip(Tail(s)) ELSE s
Strip(s) == LStrip(RStrip(s))

RECURSIVE DecimalValue(_)
DecimalValue(s) == IF s = <<>> THEN 0 ELSE 10 * DecimalValue(SubSeq(s, 1, Len(s) - 1)) + (s[Len(s)] - 48)

IsDigits(s) == \A i \in 1..Len(s) : s[i] >= 48 /\ s[i] <= 57

\* make_int on a label field of digits and blanks: -1 stands for the ValueError
\* of int() on anything else
make_int(num) ==
    IF Strip(num) = <<>> THEN 0
    ELSE IF IsDigits(Strip(num)) THEN DecimalValue(Strip(num))
    ELSE -1

\* get_tape_date on the six characters cyyddd: the date as [year, yday], or
\* BadDate for the ValueError of int() or of strptime('%Y%j').  Its isoformat
\* rendering is not modelled.
BadDate == [year |-> -1, yday |-> -1]

get_tape_date(tape_date) ==
    IF Len(tape_date) < 6 THEN BadDate
    ELSE IF tape_date[1] # 32 /\ ~IsDigits(<<tape_date[1]>>) THEN BadDate
    ELSE IF ~IsDigits(SubSeq(tape_date, 2, 5)) THEN BadDate
    ELSE IF ~IsDigits(<<tape_date[6]>>) THEN BadDate
    ELSE IF DecimalValue(SubSeq(tape_date, 4, 5)) * 10
            + (IF tape_date[6] = 48 THEN 1 ELSE tape_date[6] - 48) > 366 THEN BadDate
    ELSE [year |-> (IF tape_date[1] = 32 THEN 1900 ELSE (20 + tape_date[1] - 48) * 100)
                   + DecimalValue(SubSeq(tape_date, 2, 3)),
          yday |-> DecimalValue(SubSeq(tape_date, 4, 5)) * 10
                   + (IF tape_date[6] = 48 THEN 1 ELSE tape_date[6] - 48)]

\* The HDR1 dict parse_tape builds from an 80-character label t
ParseHDR1(t) ==
    [dsn              |-> Strip(PySlice(t, 4, 21)),
     dsnser           |-> PySlice(t, 21, 27),
     volseq           |-> make_int(PySlice(t, 27, 31)),
     dsnseq           |-> make_int(PySlice(t, 31, 35)),
     gennum           |-> make_int(PySlice(t, 35, 39)),
     version          |-> make_int(PySlice(t, 39, 41)),
     createdate       |-> get_tape_date(PySlice(t, 41, 47)),
     expirationdate   |-> get_tape_date(PySlice(t, 47, 53)),
     dsnsec           |-> make_int(PySlice(t, 53, 54)) # 0,
     block_count_low  |-> make_int(PySlice(t, 54, 60)),
     system_code      |-> PySlice(t, 60, 73),
     block_count_high |-> make_int(PySlice(t, 76, 80))]

\* Building it raised ValueError
HDR1Error(h) ==
    \/ -1 \in {h.volseq, h.dsnseq, h.gennum, h.version, h.block_count_low, h.block_count_high}
    \/ h.createdate = BadDate \/ h.expirationdate = BadDate

\* The HDR2 dict parse_tape builds from an 80-character label t
ParseHDR2(t) ==
    [recfm           |-> PySlice(t, 4, 5),
     block_len       |-> make_int(PySlice(t, 5, 10)),
     lrecl           |-> make_int(PySlice(t, 10, 15)),
     density         |-> make_int(PySlice(t, 15, 16)),
     position        |-> PySlice(t, 16, 17),
     jobid           |-> PySlice(t, 17, 34),
     technique       |-> PySlice(t, 34, 36),
     control_char    |-> PySlice(t, 36, 37),
     block_attr      |-> PySlice(t, 38, 39),
     devser          |-> PySlice(t, 41, 47),
     dsnid           |-> PySlice(t, 47, 48),
     large_block_len |-> PySlice(t, 70, 80)]

HDR2Error(h) == -1 \in {h.block_len, h.lrecl, h.density}

\* current_record[:4].decode(self.ebcdic) == name and len(current_record) == 80
IsLabelRecord(current_record, name) ==
    Decode(Slice(current_record, 0, 4)) = name /\ Len(current_record) = 80

\* HDR1, HDR2 and UTL after the block's record has been looked at: [err, HDR1, HDR2, UTL]
TapeLabels(current_record, h1, h2, utl) ==
    IF IsLabelRecord(current_record, S_HDR1)
       /\ (HDR1Error(ParseHDR1(Decode(current_record)))
           \/ make_int(PySlice(Decode(current_record), 53, 54)) = -1)
    THEN [err |-> "ValueError", HDR1 |-> h1, HDR2 |-> h2, UTL |-> utl]
    ELSE IF IsLabelRecord(current_record, S_HDR2) /\ HDR2Error(ParseHDR2(Decode(current_record)))
    THEN [err |-> "ValueError", HDR1 |-> h1, HDR2 |-> h2, UTL |-> utl]
    ELSE [err  |-> "",
          HDR1 |-> IF IsLabelRecord(current_record, S_HDR1)
                   THEN ParseHDR1(Decode(current_record)) ELSE h1,
          HDR2 |-> IF IsLabelRecord(current_record, S_HDR2)
                   THEN ParseHDR2(Decode(current_record)) ELSE h2,
          UTL  |-> IF Decode(current_record) = S_UTL
                   THEN Append(utl, Decode(current_record)) ELSE utl]

\* volume_label after the block has joined the accumulator
TapeVolume(tf, vl) ==
    IF vl = EmptyDict /\ Decode(Slice(tf, 0, 4)) = S_VOL1
    THEN [volser |-> Decode(Slice(tf, 4, 10)), owner |-> Decode(Slice(tf, 41, 51))]
    ELSE vl

\* tape_file[:4].decode(self.ebcdic) in ['VOL1', 'HDR1', 'HDR2', 'EOF1', 'EOF2']
IsLabel(tf) == Decode(Slice(tf, 0, 4)) \in {S_VOL1, S_HDR1, S_HDR2, S_EOF1, S_EOF2}

\* tape_text after the accumulator tf has been classified as sn
TapeText(sn, tf, h2, text) ==
    IF sn.filetype = "text/plain" \/ sn.datatype # "binary" \/ force
    THEN IF Has(h2, "lrecl")
         THEN IF InStr(70, h2.recfm) THEN convert_text_file(tf, h2.lrecl) ELSE text
         ELSE convert_text_file(tf, manual_recordlength)
    ELSE <<>>

\* The `output` dict of a non-empty accumulator
TapeOutput(c, tf, text, h1, h2, utl, num) ==
    [data |-> tf, filetype |-> c.filetype, datatype |-> c.datatype,
     extension |-> c.extension, num |-> num]
    @@ (IF text # <<>> THEN [text |-> text] ELSE EmptyDict)
    @@ (IF h1 # EmptyDict THEN [HDR1 |-> h1] ELSE EmptyDict)
    @@ (IF h2 # EmptyDict THEN [HDR2 |-> h2] ELSE EmptyDict)
    @@ (IF utl # <<>> THEN [UHL |-> utl] ELSE EmptyDict)

\* 'FILE{:>04d}'.format(file_num)
S_FILE == <<70, 73, 76, 69>>
FileNumName(num) ==
    S_FILE \o (IF num < 10 THEN <<48, 48, 48>> ELSE IF num < 100 THEN <<48, 48>>
               ELSE IF num < 1000 THEN <<48>> ELSE <<>>)
           \o (IF num >= 1000 THEN <<48 + ((num \div 1000) % 10)>> ELSE <<>>)
           \o (IF num >= 100 THEN <<48 + ((num \div 100) % 10)>> ELSE <<>>)
           \o (IF num >= 10 THEN <<48 + ((num \div 10) % 10)>> ELSE <<>>)
           \o <<48 + (num % 10)>>

\* The key the completed file is stored under
TapeFileName(h1, num) == IF Has(h1, "dsn") THEN h1.dsn ELSE FileNumName(num)

\* NextAccumulator without the reset that follows the end-of-file handling
NextAccumulatorKept(eof, tf) == tf

\* The tape-file accumulator after the end-of-file handling of a block
NextAccumulator(eof, tf) == IF eof THEN <<>> ELSE tf

\* The block at the cursor: its size, flags and raw payload
BlockSize  == GetIntLittle(Slice(tape_object, loc, loc + 2))
BlockFlags == GetIntBig(Slice(tape_object, loc + 4, loc + 6))
BlockRaw   == Slice(tape_object, loc + 6, loc + BlockSize + 6)

\* One iteration of `while loc < len(self.tape_object)`
TapeBlock ==
    /\ pc = "parse_tape"
    /\ loc < Len(tape_object)
    /\ \E fl \in {TapeFlags(BlockFlags, eof_marker, eor_marker)} :
       \E d \in {TapeDecode(BlockFlags, BlockRaw)} :
       \E lb \in {TapeLabels(d.data, HDR1, HDR2, UTL)} :
       \E tf \in {tape_file \o d.data} :
         IF Unrecognized(BlockFlags) \/ d.err # "" \/ lb.err # ""
         THEN /\ Raise(IF Unrecognized(BlockFlags) THEN "Exception: Header flag unrecognized"
                       ELSE IF d.err # "" THEN d.err ELSE lb.err)
              /\ UNCHANGED <<tape, loc, tapevars, blocks_read, ended_by>>
         ELSE
           /\ UNCHANGED err
           /\ eof_marker' = fl.eof
           /\ eor_marker' = fl.eor
           /\ volume_label' = TapeVolume(tf, volume_label)
           /\ IF ~fl.eof
              THEN \* the block joins the accumulator
                   /\ tape_file' = NextAccumulator(fl.eof, tf)
                   /\ loc' = loc + BlockSize + 6
                   /\ HDR1' = lb.HDR1 /\ HDR2' = lb.HDR2 /\ UTL' = lb.UTL
                   /\ blocks_read' = Append(blocks_read, d.data)
                   /\ UNCHANGED <<pc, tape, tape_text, file_num, ended_by>>
              ELSE IF IsLabel(tf)
              THEN \* a label group is discarded; `continue` leaves the cursor on the block,
                   \* which is read again into the empty accumulator: when its own payload
                   \* is a label it is discarded again, and so for ever
                   /\ tape_file' = <<>>
                   /\ loc' = loc
                   /\ HDR1' = lb.HDR1 /\ HDR2' = lb.HDR2 /\ UTL' = lb.UTL
                   /\ blocks_read' = <<>>
                   /\ ended_by' = ended_by \cup {BlockFlags}
                   /\ pc' = IF IsLabel(d.data) THEN "hang" ELSE pc
                   /\ UNCHANGED <<tape, tape_text, file_num>>
              ELSE \* the accumulator is classified and, when not empty, stored
                   \E sn \in Sniffs(tf) :
                   \E text \in {TapeText(sn, tf, lb.HDR2, tape_text)} :
                     /\ tape_text' = text
                     /\ IF tf # <<>>
                        THEN /\ tape' = [tape EXCEPT !.file =
                                           Put(@, TapeFileName(lb.HDR1, file_num),
                                               TapeOutput(Classify(sn, tf, force), tf, text,
                                                          lb.HDR1, lb.HDR2, lb.UTL, file_num))]
                             /\ file_num' = file_num + 1
                             /\ HDR1' = EmptyDict /\ HDR2' = EmptyDict /\ UTL' = <<>>
                             /\ ended_by' = ended_by \cup {BlockFlags}
                        ELSE /\ HDR1' = lb.HDR1 /\ HDR2' = lb.HDR2 /\ UTL' = lb.UTL
                             /\ UNCHANGED <<tape, file_num, ended_by>>
                     /\ tape_file' = NextAccumulator(fl.eof, tf)
                     /\ loc' = loc + BlockSize + 6
                     /\ blocks_read' = <<>>
                     /\ UNCHANGED pc
    /\ UNCHANGED <<filename, disk, file_object, infile, xmit_object, tape_object, xmit, msg,
                   INMR02_count, INMR03_count, filelocation, cfgvars, opens, record_data,
                   pdsvars, routed, msg_routed, unit_named, directory, called, returned, previous, stored>>

\* The loop has passed the buffer: the volume label joins the archive
TapeEnd ==
    /\ pc = "parse_tape"
    /\ loc >= Len(tape_object)
    /\ tape' = IF volume_label # EmptyDict THEN [label |-> volume_label] @@ tape ELSE tape
    /\ pc' = "get_tape_files"
    /\ UNCHANGED <<filename, disk, file_object, infile, xmit_object, tape_object, xmit, msg,
                   INMR02_count, INMR03_count, filelocation, cfgvars, err, opens, xmivars,
                   tapevars, pdsvars, histvars>>

\* The COPYR1 test get_tape_files makes on a tape file
IsIebcopyTape(dataset) == IsIebcopy(Slice(dataset, 0, GetIntBig(Slice(dataset, 0, 2))))

\* get_tape_files, for tape files that are not IEBCOPY unloads
GetTapeFiles ==
    /\ pc = "get_tape_files"
    /\ pc' = IF \E f \in DOMAIN tape.file : IsIebcopyTape(tape.file[f].data)
             THEN "get_tape_files_pds" ELSE "done"
    /\ UNCHANGED <<objvars, cfgvars, err, opens, xmivars, tapevars, pdsvars, histvars>>

-----------------------------------------------------------------------------
(* Inputs: tapes built from blocks *)

U16LE(n) == <<n % 256, n \div 256>>

\* One block: size, size of the previous block, flags, payload
Block(flags, payload, prev) == U16LE(Len(payload)) \o U16LE(prev) \o U16(flags) \o payload

Blank(n) == Repeat(32, n)
VOL1Text == S_VOL1 \o <<86, 79, 76, 48, 48, 49>> \o Blank(31) \o <<79, 87, 78, 69, 82>> \o Blank(34)
\* dsn T, created 1999 day 1, expires 1999 day 365
HDR1Text == S_HDR1 \o <<84>> \o Blank(16) \o <<86, 79, 76, 48, 48, 49>>
            \o <<48, 48, 48, 49, 48, 48, 48, 49>> \o Blank(6)
            \o <<32, 57, 57, 48, 48, 49, 32, 57, 57, 51, 54, 53>> \o <<48>>
            \o Repeat(48, 6) \o <<73, 66, 77>> \o Blank(10) \o Blank(7)
\* recfm F, block length 1, lrecl 1
HDR2Text == S_HDR2 \o <<70>> \o <<48, 48, 48, 48, 49, 48, 48, 48, 48, 49>> \o <<48, 48>>
            \o <<74, 79, 66>> \o Blank(14) \o Blank(4) \o <<66>> \o Blank(41)

\* the same with recfm V
HDR2VText == S_HDR2 \o <<86>> \o SubSeq(HDR2Text, 6, Len(HDR2Text))

BlockKinds == {"Z", "B", "E", "F", "M", "D", "R", "X"}

\* flags and payload of the block of kind k at position i
BlockOf(k, i) ==
    IF k = "Z" THEN [flags |-> 33024, payload |-> <<120, 156, 59, 120, 112, 120, 0, 0, 53, 193, 150, 201>>]
    ELSE IF k = "B" THEN [flags |-> 41472, payload |->
            <<66, 90, 104, 57, 49, 65, 89, 38, 83, 89, 51, 233, 245, 13, 0, 0, 0, 0, 4, 6, 0, 32,
              0, 33, 0, 130, 177, 119, 36, 83, 133, 9, 3, 62, 159, 80, 208>>]
    ELSE IF k = "E" THEN [flags |-> 24576, payload |-> <<>>]
    ELSE IF k = "M" THEN [flags |-> 16384, payload |-> <<>>]
    ELSE IF k = "D" THEN [flags |-> 40960, payload |-> <<192 + i>>]
    ELSE IF k = "F" THEN [flags |-> 24576, payload |-> <<192 + i>>]
    ELSE IF k = "R" THEN [flags |-> 8192, payload |-> <<192 + i>>]
    ELSE IF k = "V" THEN [flags |-> 40960, payload |-> Encode(VOL1Text)]
    ELSE IF k = "H" THEN [flags |-> 40960, payload |-> Encode(HDR1Text)]
    ELSE IF k = "G" THEN [flags |-> 40960, payload |-> Encode(HDR2Text)]
    ELSE IF k = "Gv" THEN [flags |-> 40960, payload |-> Encode(HDR2VText)]
    ELSE IF k = "L" THEN [flags |-> 16384, payload |-> Encode(HDR1Text)]
    ELSE [flags |-> 0, payload |-> <<192 + i>>]

RECURSIVE TapeBufferFrom(_, _, _)
TapeBufferFrom(kinds, i, prev) ==
    IF i > Len(kinds) THEN <<>>
    ELSE Block(BlockOf(kinds[i], i).flags, BlockOf(kinds[i], i).payload, prev)
         \o TapeBufferFrom(kinds, i + 1, Len(BlockOf(kinds[i], i).payload))

TapeBuffer(kinds) == TapeBufferFrom(kinds, 1, 0)

\* A tape starts with its data, or with the label group VOL1 HDR1 HDR2 and a tape mark
LabelGroups == {<<>>, <<"V", "H", "G", "M">>}

MaxBlocks == 3

TapeInputs == {TapeBuffer(pre \o kinds) : pre \in LabelGroups, kinds \in SeqsUpTo(BlockKinds, MaxBlocks)}

-----------------------------------------------------------------------------
(* The tape specification: one object, constructed with a file name, opens one *)
(* virtual tape.                                                               *)

InitTape ==
    /\ filename = FileName
    /\ disk \in TapeInputs
    /\ infile = None
    /\ force = FALSE /\ unnum = TRUE /\ binary = FALSE /\ manual_recordlength = 80
    /\ Constructed

NextTape == OpenOnce \/ TapeBlock \/ TapeEnd \/ GetTapeFiles

SpecTape == InitTape /\ [][NextTape]_vars

-----------------------------------------------------------------------------
(* Properties of parse_tape *)

\* The tape files of the archive
TapeFiles(t) == IF Has(t, "file") THEN t.file ELSE EmptyDict

\* The files the step stores (new, or stored anew with other content)
Emitted == {f \in DOMAIN TapeFiles(tape') :
               f \notin DOMAIN TapeFiles(tape) \/ TapeFiles(tape')[f] # TapeFiles(tape)[f]}

\* The payload of the block at the cursor, decompressed as its flags say
CurrentPayload ==
    IF HasBit(BlockFlags, 512) THEN Bz2Streams[BlockRaw]
    ELSE IF HasBit(BlockFlags, 256) THEN ZlibStreams[BlockRaw]
    ELSE BlockRaw

\* C4: the data of each tape file parse_tape emits equals the in-order
\* concatenation of the (decompressed when flagged 0x0200/0x0100, otherwise
\* raw) payloads of the blocks read since the accumulator was last completed
\* or discarded, the block that completes the file included.
C4_TapeAssembly ==
    [][ pc = "parse_tape" =>
          \A f \in Emitted :
             TapeFiles(tape')[f].data = Concat(Append(blocks_read, CurrentPayload)) ]_vars

\* A 0x8100 block that decompresses to 200 bytes, then a 0x6000 block, have been
\* assembled into one file of 200 bytes
C4_Witness ==
    /\ tape_object = TapeBuffer(<<"Z", "E">>)
    /\ pc = "get_tape_files"
    /\ DOMAIN tape.file = {FileNumName(1)}
    /\ tape.file[FileNumName(1)].data = Repeat(193, 200)

\* C5: an accumulator is promoted to a dataset or discarded as a label only at
\* a block whose own header has the EOF flag 0x4000.
C5_OnlyAtEof == \A flags \in ended_by : HasBit(flags, 16384)

-----------------------------------------------------------------------------
(* Partitioned datasets: the members dict.  Python dicts keep insertion      *)
(* order and the code iterates them, so the dict is a sequence of            *)
(* [name, d] pairs; d is the member's own dict.                              *)

\* position of `name` among the members, 0 when it is not a key
MemberIndex(ms, name) ==
    IF \E i \in 1..Len(ms) : ms[i].name = name
    THEN CHOOSE i \in 1..Len(ms) : ms[i].name = name
    ELSE 0

\* name in members
HasMember(ms, name) == MemberIndex(ms, name) # 0

\* members[name]
Member(ms, name) == ms[MemberIndex(ms, name)].d

\* members[name] = d: an existing key keeps its place, a new key goes last
SetMember(ms, name, d) ==
    IF HasMember(ms, name)
    THEN [ms EXCEPT ![MemberIndex(ms, name)] = [name |-> name, d |-> d]]
    ELSE Append(ms, [name |-> name, d |-> d])

\* self.xmit['file'][pds]['members'][member]['ttr']
get_ttr(ms, member) == Member(ms, member)["ttr"]

\* XMIT.is_alias, on the members of the dataset
MemberIsAlias(ms, member) == Member(ms, member)["alias"]

\* XMIT.__member_ttrs: TTR -> member for the members not flagged alias; a later
\* member with the same TTR replaces an earlier one
RECURSIVE MemberTtrsFrom(_, _, _)
MemberTtrsFrom(ms, i, acc) ==
    IF i > Len(ms) THEN acc
    ELSE MemberTtrsFrom(ms, i + 1,
                        IF ~MemberIsAlias(ms, ms[i].name)
                        THEN Put(acc, get_ttr(ms, ms[i].name), ms[i].name)
                        ELSE acc)
member_ttrs(ms) == MemberTtrsFrom(ms, 1, EmptyDict)

\* The loop of __fix_circular_alias from member i on, with the TTRs owned so far
RECURSIVE FixFrom(_, _, _)
FixFrom(ms, i, owned) ==
    IF i > Len(ms) THEN ms
    ELSE IF MemberIsAlias(ms, ms[i].name) /\ ~Has(owned, get_ttr(ms, ms[i].name))
    THEN FixFrom(SetMember(ms, ms[i].name, Put(ms[i].d, "alias", FALSE)), i + 1,
                 Put(owned, get_ttr(ms, ms[i].name), ms[i].name))
    ELSE FixFrom(ms, i + 1, owned)

\* The same loop, forgetting which TTRs it has given an owner
RECURSIVE FixFromForgetful(_, _, _)
FixFromForgetful(ms, i, owned) ==
    IF i > Len(ms) THEN ms
    ELSE IF MemberIsAlias(ms, ms[i].name) /\ ~Has(owned, get_ttr(ms, ms[i].name))
    THEN FixFromForgetful(SetMember(ms, ms[i].name, Put(ms[i].d, "alias", FALSE)), i + 1, owned)
    ELSE FixFromForgetful(ms, i + 1, owned)
fix_circular_alias_forgetful(ms) == FixFromForgetful(ms, 1, member_ttrs(ms))

\* XMIT.__fix_circular_alias
fix_circular_alias(ms) == FixFrom(ms, 1, member_ttrs(ms))

\* sorted(keys): the synthesized keys "??n" are modelled as -n
RECURSIVE SortedSeq(_)
SortedSeq(S) ==
    IF S = {} THEN <<>>
    ELSE LET lo == CHOOSE x \in S : \A y \in S : x <= y
         IN  <<lo>> \o SortedSeq(S \ {lo})

\* "DELETED{n}"
S_DELETED == <<68, 69, 76, 69, 84, 69, 68>>
RECURSIVE Digits(_)
Digits(n) == IF n < 10 THEN <<48 + n>> ELSE Digits(n \div 10) \o <<48 + (n % 10)>>
DeletedName(n) == S_DELETED \o Digits(n)

\* XMIT.handle_vb: the records of one variable-format block (4 bytes of block
\* descriptor, then records led by a 2-byte length that counts its 4-byte header)
RECURSIVE HandleVbFrom(_, _, _)
HandleVbFrom(vbdata, at, lrecl) ==
    IF at < Len(vbdata) /\ lrecl > 0
    THEN LET l == GetIntBig(Slice(vbdata, at, at + 2))
         IN  <<Slice(vbdata, at + 4, at + l)>> \o HandleVbFrom(vbdata, at + l, l)
    ELSE <<>>
handle_vb(vbdata) == HandleVbFrom(vbdata, 4, 10)

-----------------------------------------------------------------------------
(* Queries on a parsed archive.  A query answers [err, val]: err is "" when   *)
(* it returns val, else the exception it raises.                              *)

Returns(v) == [err |-> "", val |-> v]
Raises(e)  == [err |-> e, val |-> <<>>]

\* XMIT.check_parsed: TRUE when it raises
check_parsed ==
    \/ DOMAIN xmit = {} /\ DOMAIN tape = {}
    \/ DOMAIN xmit # {} /\ ~Has(xmit, "INMR01")

\* XMIT.has_xmi, once check_parsed has passed
has_xmi == DOMAIN xmit # {}

\* The `files` the queries read: self.xmit['file'] or self.tape['file']
ArchiveFiles == IF has_xmi THEN xmit["file"] ELSE tape["file"]

\* the names of a members dict, in its order
MemberNames(ms) == [i \in 1..Len(ms) |-> ms[i].name]

\* XMIT.get_members
get_members(pds) ==
    IF check_parsed THEN Raises("Exception: not parsed")
    ELSE IF ~Has(ArchiveFiles, pds) THEN Raises("KeyError")
    ELSE IF Has(ArchiveFiles[pds], "members")
         THEN Returns(MemberNames(ArchiveFiles[pds]["members"]))
         ELSE Returns(<<>>)

\* XMIT.is_alias
is_alias(pds, member) ==
    IF check_parsed THEN Raises("Exception: not parsed")
    ELSE IF ~Has(ArchiveFiles, pds) \/ ~Has(ArchiveFiles[pds], "members")
            \/ ~HasMember(ArchiveFiles[pds]["members"], member)
         THEN Raises("KeyError")
    ELSE Returns(MemberIsAlias(ArchiveFiles[pds]["members"], member))

\* The loop of get_alias: the first member that has a TTR, is not an alias and
\* carries alias_ttr; None when there is none
AliasTarget(ms, alias_ttr) ==
    LET hits == {i \in 1..Len(ms) : /\ Has(ms[i].d, "ttr")
                                    /\ ~ms[i].d["alias"]
                                    /\ ms[i].d["ttr"] = alias_ttr}
    IN  IF hits = {} THEN None
        ELSE ms[CHOOSE i \in hits : \A j \in hits : i <= j].name

\* XMIT.get_alias
get_alias(pds, member) ==
    IF check_parsed THEN Raises("Exception: not parsed")
    ELSE IF ~Has(ArchiveFiles, pds) \/ ~Has(ArchiveFiles[pds], "members")
            \/ ~HasMember(ArchiveFiles[pds]["members"], member)
            \/ ~Has(Member(ArchiveFiles[pds]["members"], member), "ttr")
         THEN Raises("KeyError")
    ELSE Returns(AliasTarget(ArchiveFiles[pds]["members"],
                             get_ttr(ArchiveFiles[pds]["members"], member)))

\* XMIT.get_member_binary: members[member]['data'], the name taken as given
get_member_binary(pds, member) ==
    IF check_parsed THEN Raises("Exception: not parsed")
    ELSE IF ~Has(ArchiveFiles, pds) THEN Returns(None)
    ELSE IF ~Has(ArchiveFiles[pds], "members")
            \/ ~HasMember(ArchiveFiles[pds]["members"], member)
            \/ ~Has(Member(ArchiveFiles[pds]["members"], member), "data")
         THEN Raises("KeyError")
    ELSE Returns(Member(ArchiveFiles[pds]["members"], member)["data"])

\* The tail of get_member_decoded, for the member the alias resolved to
DecodedOf(ms, member) ==
    IF ~HasMember(ms, member) THEN Raises("KeyError")
    ELSE IF Has(Member(ms, member), "text") THEN Returns(Member(ms, member)["text"])
    ELSE IF Has(Member(ms, member), "data") THEN Returns(Member(ms, member)["data"])
    ELSE Returns(<<>>)

\* XMIT.get_member_decoded
get_member_decoded(pds, member) ==
    IF is_alias(pds, member).err # "" THEN is_alias(pds, member)
    ELSE IF is_alias(pds, member).val
         THEN IF get_alias(pds, member).err # "" THEN get_alias(pds, member)
              ELSE DecodedOf(ArchiveFiles[pds]["members"], get_alias(pds, member).val)
    ELSE DecodedOf(ArchiveFiles[pds]["members"], member)

\* The info dict get_member_info builds for the resolved member d of dataset f
InfoOf(f, d, base) ==
    LET i1 == IF Has(d, "mimetype") THEN Put(base, "mimetype", d["mimetype"]) ELSE base
        i2 == IF Has(d, "extension") THEN Put(i1, "extension", d["extension"]) ELSE i1
        i3 == IF DOMAIN d["ispf"] # {}
              THEN [modified |-> d["ispf"]["modifydate"], owner |-> d["ispf"]["user"],
                    version |-> d["ispf"]["version"], created |-> d["ispf"]["createdate"]] @@ i2
              ELSE i2
        size == IF Has(d, "text") /\ ~binary THEN Len(d["text"])
                ELSE IF Has(d, "data") THEN Len(d["data"]) ELSE 0
    IN  [RECFM |-> f["COPYR1"]["DS1RECFM"], LRECL |-> f["COPYR1"]["DS1LRECL"],
         size |-> size] @@ i3

\* get_member_info, from the alias test on
InfoResolved(f, ms, member) ==
    LET isal   == ms[MemberIndex(ms, member)].d["alias"]
        target == IF isal THEN AliasTarget(ms, get_ttr(ms, member)) ELSE member
    IN  IF isal /\ ~Has(Member(ms, member), "ttr") THEN Raises("KeyError")
        ELSE IF isal /\ target = None THEN Raises("Exception: Member Alias target not found")
        ELSE IF ~Has(Member(ms, target), "ispf") THEN Raises("KeyError: ispf")
        ELSE Returns(InfoOf(f, Member(ms, target),
                            IF isal THEN [alias |-> target] ELSE EmptyDict))

\* XMIT.get_member_info
get_member_info(pds, member) ==
    IF check_parsed THEN Raises("Exception: not parsed")
    ELSE IF ~Has(ArchiveFiles, pds) THEN Raises("KeyError")
    ELSE IF ~Has(ArchiveFiles[pds], "members") THEN Raises("Exception: No members")
    ELSE IF ~HasMember(ArchiveFiles[pds]["members"], member)
         THEN Raises("Exception: Member not found")
    ELSE InfoResolved(ArchiveFiles[pds], ArchiveFiles[pds]["members"], member)

-----------------------------------------------------------------------------
(* XMIT.__process_blocks *)

\* The locals PDS_or_PDSE, recfm and lrecl, read from COPYR1 on entry
PDS_or_PDSE == member_dict["COPYR1"]["type"]
DS1RECFM    == member_dict["COPYR1"]["DS1RECFM"]
DS1LRECL    == member_dict["COPYR1"]["DS1LRECL"]

\* member_dict is the object self.xmit['file'][filename]: a store through one
\* is seen through the other
MemberDictStore(ms) ==
    /\ member_dict' = Put(member_dict, "members", ms)
    /\ xmit' = Put(xmit, "file", Put(xmit["file"], dsname, Put(member_dict, "members", ms)))

\* Entry: locals, __fix_circular_alias, __member_ttrs, sorted TTRs
ProcessBlocks ==
    /\ pc = "process_blocks"
    /\ \E ms \in {fix_circular_alias(xmit["file"][dsname]["members"])} :
         /\ member_dict' = Put(xmit["file"][dsname], "members", ms)
         /\ xmit' = Put(xmit, "file", Put(xmit["file"], dsname, Put(xmit["file"][dsname], "members", ms)))
         /\ ttrs' = member_ttrs(ms)
         /\ sorted_ttrs' = SortedSeq(DOMAIN member_ttrs(ms))
    /\ loc' = 0 /\ ttr_location' = 0 /\ member_data' = <<>> /\ vb_member_data' = <<>>
    /\ deleted_num' = 1 /\ prev_ttr' = 0 /\ record_closed' = FALSE
    /\ pc' = "blocks_loop"
    /\ UNCHANGED <<filename, disk, file_object, infile, xmit_object, tape_object, tape, msg,
                   INMR02_count, INMR03_count, filelocation, cfgvars, err, opens, record_data,
                   tapevars, dsname, member_blocks, member_name, histvars>>

\* The PDSE loop that passes the blocks carrying the TTR of the member just
\* closed: the offset it stops at (-1: it never stops)
RECURSIVE SkipSame(_, _, _)
SkipSame(mb, at, prev) ==
    IF GetIntBig(Slice(mb, at + 6, at + 9)) # prev THEN at
    ELSE IF at >= Len(mb) THEN -1
    ELSE SkipSame(mb, at + GetIntBig(Slice(mb, at + 10, at + 12)) + 12, prev)

\* filetype, extension of a member: force first, then the nested-XMI override
ClassifyMember(sn, data, frc) ==
    LET nested == /\ sn.filetype = "application/octet-stream"
                  /\ Len(data) >= 8
                  /\ Decode(Slice(data, 2, 8)) = S_INMR01
    IN  [filetype  |-> IF nested THEN "application/xmit" ELSE sn.filetype,
         datatype  |-> sn.datatype,
         extension |-> IF nested THEN ".xmi"
                       ELSE IF frc THEN ".txt" ELSE Extension(sn.filetype)]

\* vb_member_text: each record converted at its own length, stripped, plus '\n'
RECURSIVE VbText(_)
VbText(vb) ==
    IF vb = <<>> THEN <<>>
    ELSE RStrip(convert_text_file(Head(vb), Len(Head(vb)))) \o NL \o VbText(Tail(vb))

\* The stores of a completion into members[name]
StoreMember(ms, name, sn, data, vb, rfm, recl) ==
    LET c  == ClassifyMember(sn, data, force)
        d1 == IF sn.filetype = "text/plain" \/ sn.datatype # "binary" \/ force
              THEN Put(Member(ms, name), "text",
                       IF InStr("V", rfm) THEN VbText(vb) ELSE convert_text_file(data, recl))
              ELSE Member(ms, name)
    IN  SetMember(ms, name, [mimetype |-> c.filetype, datatype |-> c.datatype,
                             extension |-> c.extension, data |-> data] @@ d1)

\* The locals after a DELETED{n} name has been made up for a completion that
\* has no TTR left
Synthesized(ms) ==
    IF ttr_location + 1 > Len(sorted_ttrs)
    THEN [sorted_ttrs |-> Append(sorted_ttrs, -deleted_num),
          ttrs        |-> Put(ttrs, -deleted_num, DeletedName(deleted_num)),
          members     |-> SetMember(ms, DeletedName(deleted_num), [alias |-> FALSE]),
          deleted_num |-> deleted_num + 1]
    ELSE [sorted_ttrs |-> sorted_ttrs, ttrs |-> ttrs, members |-> ms,
          deleted_num |-> deleted_num]

\* The iteration from the append on: block of TTR t and data length n at offset
\* `at`, rc the value of record_closed, s the locals after the name was made up
BlockData(at, rc, t, n, s) ==
    LET name    == s.ttrs[s.sorted_ttrs[ttr_location + 1]]
        payload == Slice(member_blocks, at + 12, at + 12 + n)
        vb      == IF InStr("V", DS1RECFM) THEN vb_member_data \o handle_vb(payload)
                   ELSE vb_member_data
        data    == IF InStr("V", DS1RECFM) THEN Concat(vb) ELSE member_data \o payload
    IN  /\ member_name' = name
        /\ sorted_ttrs' = s.sorted_ttrs /\ ttrs' = s.ttrs /\ deleted_num' = s.deleted_num
        /\ loc' = at + n + 12
        /\ IF n = 0
           THEN \* end of member
                /\ \E sn \in Sniffs(data) :
                     MemberDictStore(StoreMember(s.members, name, sn, data, vb, DS1RECFM, DS1LRECL))
                /\ member_data' = <<>> /\ vb_member_data' = <<>>
                /\ ttr_location' = ttr_location + 1
                /\ prev_ttr' = t
                /\ record_closed' = IF PDS_or_PDSE = "PDSE" THEN TRUE ELSE rc
                /\ stored' = Append(stored, name)
           ELSE /\ MemberDictStore(s.members)
                /\ member_data' = data /\ vb_member_data' = vb
                /\ record_closed' = rc
                /\ UNCHANGED <<ttr_location, prev_ttr, stored>>
        /\ UNCHANGED <<pc, err>>

\* The iteration from the skip-empty test on
BlockAt(at, rc) ==
    IF GetIntBig(Slice(member_blocks, at + 6, at + 9)) = 0
       /\ GetIntBig(Slice(member_blocks, at + 10, at + 12)) = 0
    THEN \* skip empty entries
         /\ loc' = at + 12 /\ record_closed' = rc
         /\ UNCHANGED <<xmit, pc, err, member_dict, sorted_ttrs, ttrs, ttr_location, member_data,
                        vb_member_data, deleted_num, prev_ttr, member_name, stored>>
    ELSE IF Len(member_blocks) < at + 10
    THEN \* member_blocks[loc + 1], member_blocks[loc + 9]
         /\ Raise("IndexError")
         /\ UNCHANGED <<xmit, loc, member_dict, sorted_ttrs, ttrs, ttr_location, member_data,
                        vb_member_data, deleted_num, prev_ttr, record_closed, member_name, stored>>
    ELSE \E s \in {Synthesized(member_dict["members"])} :
           BlockData(at, rc, GetIntBig(Slice(member_blocks, at + 6, at + 9)),
                     GetIntBig(Slice(member_blocks, at + 10, at + 12)), s)

\* One iteration of the while loop of __process_blocks
PdsBlock ==
    /\ pc = "blocks_loop"
    /\ loc < Len(member_blocks)
    /\ IF PDS_or_PDSE = "PDSE" /\ record_closed
       THEN \E at \in {SkipSame(member_blocks, loc, prev_ttr)} :
              IF at = -1
              THEN /\ pc' = "hang"
                   /\ UNCHANGED <<xmit, err, loc, member_dict, sorted_ttrs, ttrs, ttr_location,
                                  member_data, vb_member_data, deleted_num, prev_ttr,
                                  record_closed, member_name, stored>>
              ELSE BlockAt(at, FALSE)
       ELSE BlockAt(loc, record_closed)
    /\ UNCHANGED <<filename, disk, file_object, infile, xmit_object, tape_object, tape, msg,
                   INMR02_count, INMR03_count, filelocation, cfgvars, opens, record_data,
                   tapevars, dsname, member_blocks,
                   routed, msg_routed, blocks_read, ended_by, unit_named, directory, called, returned, previous>>

\* After the loop: the trailing record, then the return into self.xmit['file']
PdsEnd ==
    /\ pc = "blocks_loop"
    /\ loc >= Len(member_blocks)
    /\ IF Len(member_data) > 0
       THEN /\ \E sn \in Sniffs(member_data) :
                 MemberDictStore(StoreMember(member_dict["members"], member_name, sn, member_data,
                                             vb_member_data, DS1RECFM, DS1LRECL))
            /\ stored' = Append(stored, member_name)
       ELSE UNCHANGED <<xmit, member_dict, stored>>
    /\ pc' = "done"
    /\ UNCHANGED <<filename, disk, file_object, infile, xmit_object, tape_object, tape, msg,
                   INMR02_count, INMR03_count, filelocation, cfgvars, err, opens, xmivars,
                   tapevars, dsname, member_blocks, sorted_ttrs, ttrs, ttr_location, member_data,
                   vb_member_data, deleted_num, prev_ttr, record_closed, member_name,
                   routed, msg_routed, blocks_read, ended_by, unit_named, directory, called, returned, previous>>

-----------------------------------------------------------------------------
(* The partitioned-dataset specification.  It starts where get_xmi_files     *)
(* calls __process_blocks: the control records are parsed, COPYR1 is read,   *)
(* __get_members_info has returned the directory, and the records after the  *)
(* directory are joined into member_blocks.                                  *)

\* 3-byte big-endian TTR
U24(n) == <<n \div 65536, (n \div 256) % 256, n % 256>>

\* One member block: flag, extent, BB, CC, TTR, key length, data length, data
MemberBlock(t, payload) == <<0, 0, 0, 0, 0, 0>> \o U24(t) \o <<0>> \o U16(Len(payload)) \o payload

RecKinds == {"D1", "Z1", "Z2", "E", "T"}

\* D1: a data block of TTR 1; Z1, Z2: the zero-length block that ends a member;
\* E: an empty entry; T: a block cut short inside its header; X1: a data block
\* of TTR 1 that holds the first segment of an XMI file
RecOf(k) ==
    IF k = "D1" THEN MemberBlock(1, <<193>>)
    ELSE IF k = "X1" THEN MemberBlock(1, <<8, 224>> \o Encode(S_INMR01))
    ELSE IF k = "Z1" THEN MemberBlock(1, <<>>)
    ELSE IF k = "Z2" THEN MemberBlock(2, <<>>)
    ELSE IF k = "E" THEN MemberBlock(0, <<>>)
    ELSE SubSeq(MemberBlock(1, <<>>), 1, 9)

RECURSIVE PdsBlocks(_)
PdsBlocks(kinds) == IF kinds = <<>> THEN <<>> ELSE RecOf(Head(kinds)) \o PdsBlocks(Tail(kinds))

MaxRecs == 3

\* A directory entry as __get_members_info stores it for an entry without user
\* data (ispf False is the empty dict: both are falsy)
DirEntry(t, a) == [ttr |-> t, alias |-> a, halfwords |-> 0, notes |-> 0,
                   parms |-> <<>>, ispf |-> EmptyDict]

S_MAIN == <<77, 65, 73, 78>>
S_LINK == <<76, 73, 78, 75>>
S_COPY == <<67, 79, 80, 89>>
S_TEST == <<84, 69, 83, 84>>

\* The member names, by position in the directory; the first member is MAIN or
\* carries the name DELETED1
DirNames(first) == <<first, S_LINK, S_COPY, S_TEST>>

MaxMembers == 2

DirTtrs == {1, 2}

Directories ==
    {[i \in 1..k |-> [name |-> DirNames(first)[i], d |-> DirEntry(t[i], a[i])]] :
        <<first, k, t, a>> \in
          UNION {{S_MAIN, DeletedName(1)} \X {k} \X [1..k -> DirTtrs] \X [1..k -> BOOLEAN] :
                 k \in 0..MaxMembers}}

\* INMDSNAM of the dataset
S_PDSNAME == <<65, 46, 66>>

\* COPYR1, the fields __process_blocks and the queries read: fixed blocked
\* records of 80 bytes
COPYR1(type) == [type |-> type, DS1LRECL |-> 80, DS1RECFM |-> get_recfm(<<144, 0>>)]

\* self.xmit when __process_blocks is called
ParsedPds(type, ms) ==
    [INMR01 |-> EmptyDict,
     INMR02 |-> <<[INMDSNAM |-> S_PDSNAME, INMDSORG |-> get_dsorg(<<2, 0>>),
                   INMRECFM |-> get_recfm(<<144, 0>>), numfile |-> 1]>>,
     INMR03 |-> <<[INMDSORG |-> get_dsorg(<<64, 0>>), INMLRECL |-> 80,
                   INMRECFM |-> get_recfm(<<128, 0>>)]>>,
     file   |-> (S_PDSNAME :> [filetype |-> "pds/directory", datatype |-> "binary",
                               extension |-> None, COPYR1 |-> COPYR1(type), members |-> ms])]

InitPdsOf(forces, kindset) ==
    /\ filename = FileName /\ infile = None
    /\ disk = XmiBuffer(<<>>) /\ file_object = disk /\ xmit_object = disk /\ tape_object = <<>>
    /\ force \in forces /\ unnum = TRUE /\ binary = FALSE /\ manual_recordlength = 80
    /\ tape = EmptyDict /\ msg = FALSE /\ INMR02_count = 1 /\ INMR03_count = 1 /\ filelocation = 1
    /\ err = "" /\ opens = 1
    /\ loc = 0 /\ record_data = <<>>
    /\ tape_file = <<>> /\ tape_text = <<>> /\ UTL = <<>> /\ eof_marker = FALSE /\ eor_marker = FALSE
    /\ file_num = 1 /\ HDR1 = EmptyDict /\ HDR2 = EmptyDict /\ volume_label = EmptyDict
    /\ sorted_ttrs = <<>> /\ ttrs = EmptyDict /\ ttr_location = 0 /\ member_data = <<>>
    /\ vb_member_data = <<>> /\ deleted_num = 1 /\ prev_ttr = 0 /\ record_closed = FALSE
    /\ member_name = None /\ member_dict = EmptyDict
    /\ routed = EmptyDict /\ msg_routed = <<>> /\ blocks_read = <<>>
    /\ ended_by = {} /\ unit_named = {1} /\ stored = <<>>
    /\ called = NoCall /\ returned = <<>> /\ previous = NoOpen
    /\ dsname = S_PDSNAME
    /\ directory \in Directories
    /\ \E type \in {"PDS", "PDSE"} : xmit = ParsedPds(type, directory)
    /\ member_blocks \in {PdsBlocks(kinds) : kinds \in SeqsUpTo(kindset, MaxRecs)}
    /\ pc = "process_blocks"

InitPds == InitPdsOf({FALSE}, RecKinds)

NextPds == ProcessBlocks \/ PdsBlock \/ PdsEnd

SpecPds == InitPds /\ [][NextPds]_vars

-----------------------------------------------------------------------------
(* Properties of __process_blocks and of the member queries (SpecPds) *)

\* The TTRs of the directory: after the alias repair each has a canonical owner
DirTtrSet == {directory[i].d["ttr"] : i \in 1..Len(directory)}

\* The members of the dataset as the queries see them
ParsedMembers == xmit["file"][dsname]["members"]

\* a member that is not flagged alias and carries TTR t
CanonicalAt(ms, name, t) ==
    /\ HasMember(ms, name)
    /\ ~Member(ms, name)["alias"]
    /\ Has(Member(ms, name), "ttr")
    /\ Member(ms, name)["ttr"] = t

\* C6: the k-th completed member payload is stored under the non-alias member
\* whose TTR is the k-th smallest canonical TTR; every completion beyond the
\* canonical TTRs is stored under a newly created non-alias member DELETED{n},
\* n = 1, 2, ...; no two completions are stored under the same name.
C6_TtrResolution ==
    pc \in {"blocks_loop", "done"} =>
      /\ \A k \in 1..Len(stored) :
           IF k <= Cardinality(DirTtrSet)
           THEN CanonicalAt(ParsedMembers, stored[k], SortedSeq(DirTtrSet)[k])
           ELSE /\ stored[k] = DeletedName(k - Cardinality(DirTtrSet))
                /\ ~HasMember(directory, stored[k])
                /\ HasMember(ParsedMembers, stored[k])
                /\ ~Member(ParsedMembers, stored[k])["alias"]
      /\ \A j, k \in 1..Len(stored) : j # k => stored[j] # stored[k]

\* C7: after the dataset is parsed, get_alias of every member flagged alias
\* returns a member, never None, that is non-alias and carries the alias's TTR.
C7_AliasSoundness ==
    pc = "done" =>
      \A i \in 1..Len(ParsedMembers) :
        ParsedMembers[i].d["alias"] =>
          /\ get_alias(dsname, ParsedMembers[i].name).err = ""
          /\ get_alias(dsname, ParsedMembers[i].name).val # None
          /\ CanonicalAt(ParsedMembers, get_alias(dsname, ParsedMembers[i].name).val,
                         ParsedMembers[i].d["ttr"])

\* The TTRs the directory gives to alias-flagged entries only
OrphanTtrs == {t \in DirTtrSet :
                 \A i \in 1..Len(directory) : directory[i].d["ttr"] = t => directory[i].d["alias"]}

\* the first directory entry that carries TTR t
FirstWith(t) == CHOOSE i \in 1..Len(directory) :
                  /\ directory[i].d["ttr"] = t
                  /\ \A j \in 1..Len(directory) : directory[j].d["ttr"] = t => i <= j

\* C8: __fix_circular_alias raises nothing; for every TTR carried only by
\* alias-flagged entries it promotes the first of them in directory order and
\* leaves the others flagged alias; an alias whose TTR a non-alias member owns
\* stays an alias (and a non-alias member stays non-alias).
C8_CircularAliasRepair ==
    [][ pc = "process_blocks" =>
          /\ pc' = "blocks_loop"
          /\ Len(ParsedMembers') = Len(directory)
          /\ \A i \in 1..Len(directory) :
               /\ ParsedMembers'[i].name = directory[i].name
               /\ ParsedMembers'[i].d["alias"] =
                    (/\ directory[i].d["alias"]
                     /\ ~(/\ directory[i].d["ttr"] \in OrphanTtrs
                          /\ i = FirstWith(directory[i].d["ttr"]))) ]_vars

\* The repair has run on a directory whose two entries are both flagged alias
\* and share a TTR: the first is promoted, the second still an alias
C8_Witness ==
    /\ pc = "blocks_loop" /\ loc = 0 /\ stored = <<>>
    /\ Len(directory) = 2
    /\ directory[1].d["alias"] /\ directory[2].d["alias"]
    /\ directory[1].d["ttr"] = directory[2].d["ttr"]
    /\ ~ParsedMembers[1].d["alias"] /\ ParsedMembers[2].d["alias"]

\* C9: for a canonical member M and an alias member L with M's TTR,
\* get_member_binary and get_member_decoded return for L what they return for
\* M, and none of the calls raises.
C9_AliasSameBytes ==
    pc = "done" =>
      \A i, j \in 1..Len(ParsedMembers) :
        (/\ Has(ParsedMembers[i].d, "ttr") /\ ~ParsedMembers[i].d["alias"]
         /\ Has(ParsedMembers[j].d, "ttr") /\ ParsedMembers[j].d["alias"]
         /\ ParsedMembers[i].d["ttr"] = ParsedMembers[j].d["ttr"])
        => /\ get_member_binary(dsname, ParsedMembers[j].name).err = ""
           /\ get_member_binary(dsname, ParsedMembers[i].name).err = ""
           /\ get_member_binary(dsname, ParsedMembers[j].name)
                = get_member_binary(dsname, ParsedMembers[i].name)
           /\ get_member_decoded(dsname, ParsedMembers[j].name).err = ""
           /\ get_member_decoded(dsname, ParsedMembers[i].name).err = ""
           /\ get_member_decoded(dsname, ParsedMembers[j].name)
                = get_member_decoded(dsname, ParsedMembers[i].name)

\* C10: for every name get_members returns for a parsed dataset, synthesized
\* DELETED{n} members and members without data included, get_member_info
\* returns an info dict and does not raise.
C10_InfoForEveryMember ==
    pc = "done" =>
      /\ get_members(dsname).err = ""
      /\ \A i \in 1..Len(get_members(dsname).val) :
           get_member_info(dsname, get_members(dsname).val[i]).err = ""

-----------------------------------------------------------------------------
(* The life of one object: set_file_object and open() called again and again *)

\* bytes that are neither XMI nor tape, and a buffer shorter than the tests read
S_UNKNOWN == <<1, 2, 3, 4, 5, 6, 7, 8, 9, 10>>
S_SHORT   == <<1, 2>>

\* The buffers handed to the object, and the files on disk
OpenBuffers == {XmiBuffer(<<"R02n", "R03", "D40">>), TapeBuffer(<<"D", "M">>), S_UNKNOWN, S_SHORT}

\* calls of open() per object
MaxOpens == 2

\* XMIT.set_file_object(data), between two calls of open()
SetFileObject ==
    /\ pc \in {"idle", "done", "raised"}
    /\ opens < MaxOpens
    /\ \E data \in OpenBuffers : file_object' = data
    /\ UNCHANGED <<filename, disk, infile, xmit_object, tape_object, xmit, tape, msg,
                   INMR02_count, INMR03_count, filelocation, cfgvars, pc, err, opens,
                   xmivars, tapevars, pdsvars, histvars>>

\* open(), at most MaxOpens times
OpenAgain == opens < MaxOpens /\ Open(None)

\* XMIT(): no file name (nothing to read from disk), or the name of a file
InitOpen ==
    /\ \/ filename = None /\ disk = NoFile
       \/ filename = FileName /\ disk \in OpenBuffers
    /\ infile = None
    /\ force \in BOOLEAN /\ unnum = TRUE /\ binary = FALSE /\ manual_recordlength = 80
    /\ Constructed

NextOpen == SetFileObject \/ OpenAgain \/ XmiSegment \/ XmiEnd \/ GetXmiFiles
            \/ TapeBlock \/ TapeEnd \/ GetTapeFiles

SpecOpen == InitOpen /\ [][NextOpen]_vars

\* C1: open() dispatches on the first bytes of the buffer and leaves the buffer
\* as it is: the buffer is parsed as XMI iff bytes 2..8 decode to INMR01;
\* otherwise it is parsed as a tape iff bytes 2..4 are zero; otherwise open()
\* raises, neither archive is populated and the queries raise in check_parsed.
C1_Dispatch ==
    [][ (opens' = opens + 1 /\ ~Falsy(file_object')) =>
          /\ file_object \in {None, file_object'}
          /\ IF filetype_is_xmi(Slice(file_object', 0, 10))
             THEN pc' = "parse_xmi" /\ xmit_object' = file_object'
             ELSE IF filetype_is_tape(Slice(file_object', 0, 4))
             THEN pc' = "parse_tape" /\ tape_object' = file_object'
             ELSE /\ pc' = "raised"
                  /\ DOMAIN xmit' = {} /\ DOMAIN tape' = {}
                  /\ check_parsed' ]_vars

-----------------------------------------------------------------------------
(* XMIT.convert_text_file called on its own: one object, one call *)

\* as EBCDIC bytes: '1', 'A', ' ' and the tab
TextBytes == {241, 193, 64, 5}

MaxText == 4
MaxRecl == 10

\* two records HELLO / WORLD of 10 columns; a record with sequence columns
S_HELLO == <<72, 69, 76, 76, 79>>
S_WORLD == <<87, 79, 82, 76, 68>>
TextSamples == {Encode(S_HELLO \o Repeat(32, 5) \o S_WORLD \o Repeat(32, 5)),
                Encode(<<65, 66>> \o <<48, 48, 48, 48, 48, 48, 49, 48>>)}

TextInputs == SeqsUpTo(TextBytes, MaxText) \cup TextSamples

ConvertTextFile ==
    /\ pc = "idle" /\ called = NoCall
    /\ \E ebcdic_text \in TextInputs, recl \in 1..MaxRecl :
         /\ called' = [op |-> "convert_text_file", ebcdic_text |-> ebcdic_text, recl |-> recl]
         /\ returned' = convert_text_file(ebcdic_text, recl)
    /\ UNCHANGED <<objvars, cfgvars, ctlvars, xmivars, tapevars, pdsvars,
                   routed, msg_routed, blocks_read, ended_by, unit_named, directory, stored,
                   previous>>

InitText ==
    /\ filename = None /\ disk = NoFile /\ infile = None
    /\ force = FALSE /\ unnum \in BOOLEAN /\ binary = FALSE /\ manual_recordlength = 80
    /\ Constructed

NextText == ConvertTextFile

SpecText == InitText /\ [][NextText]_vars

\* the consecutive chunks of n characters of s, the last one possibly shorter
RECURSIVE Chunks(_, _)
Chunks(s, n) == IF s = <<>> THEN <<>>
                ELSE <<SubSeq(s, 1, Min(n, Len(s)))>> \o Chunks(SubSeq(s, Min(n, Len(s)) + 1, Len(s)), n)

\* A chunk as the text shows it: without its last 8 characters (all of them
\* when it has fewer) iff un and those characters are all numeric, right-trimmed
ChunkLine(c, un) ==
    IF un /\ IsNumeric(PySlice(c, -8, Len(c))) THEN RStrip(PySlice(c, 0, -8)) ELSE RStrip(c)

\* C11: for recl >= 1 convert_text_file returns one line per consecutive chunk
\* of recl characters, in order; a line is the chunk without its last 8
\* characters iff unnum is set and they are all digits, right-trimmed; lines
\* are joined by newlines and a newline ends the text.
C11_FixedText ==
    (called.op = "convert_text_file" /\ called.recl >= 1) =>
      returned = Join([i \in 1..Len(Chunks(Decode(called.ebcdic_text), called.recl)) |->
                         ChunkLine(Chunks(Decode(called.ebcdic_text), called.recl)[i], unnum)])
                 \o NL

\* text.split('\n') of a text that ends with a newline, without the empty tail
RECURSIVE SplitLines(_, _)
SplitLines(text, line) ==
    IF text = <<>> THEN (IF line = <<>> THEN <<>> ELSE <<line>>)
    ELSE IF Head(text) = 10 THEN <<line>> \o SplitLines(Tail(text), <<>>)
    ELSE SplitLines(Tail(text), Append(line, Head(text)))

\* line.ljust(n)
PadTo(line, n) == IF Len(line) < n THEN line \o Repeat(32, n - Len(line)) ELSE line

\* The text split into lines, each padded to n columns and encoded again
Reencoded(text, n) ==
    Concat([i \in 1..Len(SplitLines(text, <<>>)) |-> Encode(PadTo(SplitLines(text, <<>>)[i], n))])

\* The payload with the sequence columns that unnum removes blanked out
Unnumbered(payload, n, un) ==
    Concat([i \in 1..Len(Chunks(Decode(payload), n)) |->
              Encode(IF un /\ IsNumeric(PySlice(Chunks(Decode(payload), n)[i], -8, n))
                     THEN PadTo(PySlice(Chunks(Decode(payload), n)[i], 0, -8), n)
                     ELSE Chunks(Decode(payload), n)[i])])

\* C12: for a payload of whole records of recl bytes, the text of
\* convert_text_file split into lines, each line padded with spaces to recl
\* and encoded again, is the payload (but for the digits unnum removed).
C12_TextRoundTrip ==
    (/\ called.op = "convert_text_file" /\ called.recl >= 1
     /\ called.ebcdic_text # <<>> /\ Len(called.ebcdic_text) % called.recl = 0)
    => Reencoded(returned, called.recl) = Unnumbered(called.ebcdic_text, called.recl, unnum)

-----------------------------------------------------------------------------
(* Text renderings of sequential XMI datasets (SpecXmi) *)

\* The dataset get_xmi_files works on: INMR02 number, name, records, format
XmiFileNum  == IF msg THEN 2 ELSE 1
XmiFileName == xmit["INMR02"][XmiFileNum]["INMDSNAM"]
XmiRecords  == xmit["file"][XmiFileName].data
XmiRecfm    == xmit["INMR02"][XmiFileNum]["INMRECFM"]

\* each record decoded, right-trimmed and followed by a newline
RECURSIVE RecordLines(_)
RecordLines(records) ==
    IF records = <<>> THEN <<>>
    ELSE RStrip(Decode(Head(records))) \o NL \o RecordLines(Tail(records))

\* C13: get_xmi_files of a sequential dataset with records whose format has V
\* (and not F) does not raise, and when the content is classified as text
\* (text/plain, or a charset other than binary) the dataset gets the text made
\* of each record, in order, decoded, right-trimmed and followed by a newline.
C13_VariableText ==
    [][ (/\ pc = "get_xmi_files" /\ XmiFilesLookupOk(XmiFileNum)
         /\ InStr("V", XmiRecfm) /\ ~InStr("F", XmiRecfm)
         /\ XmiRecords # <<>>)
        => /\ pc' # "raised"
           /\ (\/ xmit'["file"][XmiFileName].filetype = "text/plain"
               \/ xmit'["file"][XmiFileName].datatype # "binary")
              => /\ Has(xmit'["file"][XmiFileName], "text")
                 /\ xmit'["file"][XmiFileName].text = RecordLines(XmiRecords) ]_vars

-----------------------------------------------------------------------------
(* Text renderings and extensions of classified payloads *)

\* The rule for a classified entry e (mime type under key k): textual iff the
\* sniffer said text/plain, or a charset other than binary, or force is set
Textual(e, k) == e[k] = "text/plain" \/ e["datatype"] # "binary" \/ force

\* C14: a classified payload has a text rendering iff the sniffer reports
\* text/plain, or a charset other than binary, or force is set: for sequential
\* XMI datasets, for tape datasets and for PDS members alike.
C14_TextIff ==
    pc = "done" =>
      /\ Has(xmit, "file") =>
           \A n \in DOMAIN xmit["file"] :
             /\ (Has(xmit["file"][n], "datatype") /\ ~Has(xmit["file"][n], "members"))
                => (Has(xmit["file"][n], "text") <=> Textual(xmit["file"][n], "filetype"))
             /\ Has(xmit["file"][n], "members")
                => \A i \in 1..Len(xmit["file"][n]["members"]) :
                     Has(xmit["file"][n]["members"][i].d, "datatype")
                     => (Has(xmit["file"][n]["members"][i].d, "text")
                         <=> Textual(xmit["file"][n]["members"][i].d, "mimetype"))
      /\ Has(tape, "file") =>
           \A n \in DOMAIN tape["file"] :
             Has(tape["file"][n], "datatype")
             => (Has(tape["file"][n], "text") <=> Textual(tape["file"][n], "filetype"))


\* The PDS unload with force off and on, and members that hold a nested XMI
ForceKinds == {"D1", "X1", "Z1"}

InitForce == InitPdsOf(BOOLEAN, ForceKinds)

NextForce == ProcessBlocks \/ PdsBlock \/ PdsEnd

SpecForce == InitForce /\ [][NextForce]_vars

\* C15: with force set, every classified sequential dataset and every
\* classified PDS member has the extension ".txt", whatever the sniffer said
\* and also when the payload was recognised as a nested XMI.
C15_ForceTxt ==
    force =>
      /\ Has(xmit, "file") =>
           \A n \in DOMAIN xmit["file"] :
             /\ (Has(xmit["file"][n], "datatype") /\ ~Has(xmit["file"][n], "members"))
                => xmit["file"][n]["extension"] = ".txt"
             /\ Has(xmit["file"][n], "members")
                => \A i \in 1..Len(xmit["file"][n]["members"]) :
                     Has(xmit["file"][n]["members"][i].d, "extension")
                     => xmit["file"][n]["members"][i].d["extension"] = ".txt"
      /\ Has(tape, "file") =>
           \A n \in DOMAIN tape["file"] :
             Has(tape["file"][n], "extension") => tape["file"][n]["extension"] = ".txt"

-----------------------------------------------------------------------------
(* The archive as a whole *)

\* XMIT.get_owner
get_owner ==
    IF check_parsed THEN Raises("Exception: not parsed")
    ELSE IF has_xmi
    THEN IF Has(xmit["INMR01"], "INMFUID") THEN Returns(xmit["INMR01"]["INMFUID"])
         ELSE Raises("KeyError")
    ELSE IF Has(tape, "label") THEN Returns(tape["label"].owner)
    ELSE Returns(<<>>)

\* C16: the open of the empty transmission (INMR01, then INMR06) succeeds; the
\* archive has no dataset and no message, and its owner is the decoded INMFUID.
C16_EmptyXmi ==
    (disk = EmptyXmi /\ pc \in {"done", "raised"}) =>
        /\ pc = "done"
        /\ Files(xmit) = EmptyDict
        /\ ~msg /\ ~Has(xmit, "message")
        /\ get_owner = Returns(S_USER1)


\* XMIT.has_tape, once check_parsed has passed
has_tape == DOMAIN tape # {}

\* XMIT.get_files; val is the set of the names in the list it returns
get_files ==
    IF check_parsed THEN Raises("Exception: not parsed")
    ELSE IF (has_xmi /\ ~Has(xmit, "file")) \/ (has_tape /\ ~Has(tape, "file"))
    THEN Raises("KeyError")
    ELSE [err |-> "",
          val |-> (IF has_xmi THEN DOMAIN xmit["file"] ELSE {})
                  \cup (IF has_tape THEN DOMAIN tape["file"] ELSE {})]

\* C17: whenever open() has returned without raising, get_files() returns at
\* least one dataset, for an XMI file and for a tape, also when the tape holds
\* only label groups and tape marks.
C17_AtLeastOneDataset ==
    pc = "done" => (get_files.err = "" /\ get_files.val # {})

-----------------------------------------------------------------------------
(* Damaged inputs: a file that ends inside its last segment or block, an XMI  *)
(* file with padding, a tape whose label block carries the tape-mark flag     *)

MaxCut == 2

\* buf without its last n bytes
Cut(buf, n) == SubSeq(buf, 1, Max(Len(buf) - n, 0))

TruncBases ==
    {XmiBuffer(<<"R02n", "R03">> \o kinds) : kinds \in SeqsUpTo({"D80", "D40", "R06"}, 2)}
    \cup {TapeBuffer(kinds \o <<"D">>) : kinds \in SeqsUpTo({"D", "M"}, 2)}
    \cup {TapeBuffer(kinds \o <<"M">>) : kinds \in SeqsUpTo({"D", "M"}, 2)}
    \cup {XmiBuffer(<<"R02n", "R03", "D40">> \o pad) : pad \in {<<"P0">>, <<"P1">>, <<"P1", "D40">>}}
    \cup {TapeBuffer(kinds) : kinds \in {<<"L">>, <<"H", "M", "D", "M">>, <<"D", "M", "L">>}}

TruncInputs == {Cut(b, n) : b \in TruncBases, n \in 0..MaxCut}

InitTrunc ==
    /\ filename = FileName
    /\ disk \in TruncInputs
    /\ infile = None
    /\ force = FALSE /\ unnum = TRUE /\ binary = FALSE /\ manual_recordlength = 80
    /\ Constructed

NextTrunc == OpenOnce \/ XmiSegment \/ XmiEnd \/ GetXmiFiles \/ TapeBlock \/ TapeEnd \/ GetTapeFiles

SpecTrunc == InitTrunc /\ [][NextTrunc]_vars

\* The segment (block) at the cursor declares a length that ends after the buffer
XmiOverrun ==
    /\ pc = "parse_xmi" /\ loc < Len(xmit_object)
    /\ loc + GetIntBig(Slice(xmit_object, loc, loc + 1)) > Len(xmit_object)

TapeOverrun ==
    /\ pc = "parse_tape" /\ loc < Len(tape_object)
    /\ loc + 6 + BlockSize > Len(tape_object)

\* C18: truncation is an error: the iteration that meets an XMI segment or a
\* tape block whose declared length runs past the end of the buffer raises.
C18_TruncationRaises == [][(XmiOverrun \/ TapeOverrun) => pc' = "raised"]_vars

-----------------------------------------------------------------------------
(* The bytes open() parses *)

\* C19: when the object holds bytes given with set_file_object(), open()
\* parses exactly those bytes and does not read the file named by filename,
\* with or without a file name, for an XMI buffer as for a tape buffer.
C19_ParsesSuppliedBytes ==
    [][ (opens' = opens + 1 /\ ~Falsy(file_object)) =>
          /\ file_object' = file_object
          /\ filetype_is_xmi(Slice(file_object, 0, 10))
             => (pc' = "parse_xmi" /\ xmit_object' = file_object)
          /\ (~filetype_is_xmi(Slice(file_object, 0, 10))
              /\ filetype_is_tape(Slice(file_object, 0, 4)))
             => (pc' = "parse_tape" /\ tape_object' = file_object) ]_vars


\* What a parse has left, without what the content sniffer added: the control
\* records, the records of each dataset, the message
Parsed(x, t, m) ==
    [ctl     |-> [k \in DOMAIN x \ {"file", "message"} |-> x[k]],
     data    |-> [n \in DOMAIN Files(x) |->
                    IF Has(Files(x)[n], "data") THEN Files(x)[n]["data"] ELSE <<>>],
     tape    |-> [n \in DOMAIN TapeFiles(t) |-> TapeFiles(t)[n]["data"]],
     msg     |-> m,
     message |-> MsgBuf(x)]

\* C20: parsing depends on the input bytes and the configuration only: a
\* second open() of the same object on the same input, after a first one that
\* succeeded, succeeds and leaves the same archive (the same INMR02 and INMR03
\* indices, datasets and message).
C20_SecondOpenSame ==
    (/\ pc \in {"done", "raised"}
     /\ opens >= 2
     /\ previous.pc = "done"
     /\ previous.input = previous.last_input)
    => /\ pc = "done"
       /\ Parsed(xmit, tape, msg) = Parsed(previous.xmit, previous.tape, previous.msg)

-----------------------------------------------------------------------------
(* Extraction (XMIT.unload_files, XMIT.unload_pds) into an empty output       *)
(* folder.  What is written is a sequence of [member, link, data]: link is    *)
(* the target of a symbolic link, None for a regular file.                     *)

\* XMIT.is_sequential, XMIT.is_pds
is_sequential(pds) ==
    IF has_xmi THEN Has(xmit, "file") /\ Has(xmit["file"], pds) /\ ~Has(xmit["file"][pds], "members")
    ELSE Has(tape, "file") /\ Has(tape["file"], pds) /\ ~Has(tape["file"][pds], "members")

is_pds(pds) == ~is_sequential(pds)

\* The data unload_pds writes for a member that is not an alias
UnloadData(pds, m) == IF binary THEN get_member_binary(pds, m) ELSE get_member_decoded(pds, m)

\* One iteration of the loop of unload_pds, for member m with info dict `info`
\* (no file exists in the output folder; no ISPF date to set)
UnloadWith(pds, m, info) ==
    IF ~Has(info, "extension") THEN Raises("KeyError: extension")
    ELSE IF is_alias(pds, m).err # "" THEN Raises(is_alias(pds, m).err)
    ELSE IF is_alias(pds, m).val
    THEN Returns([member |-> m, link |-> info["alias"], data |-> <<>>])
    ELSE IF UnloadData(pds, m).err # "" THEN Raises(UnloadData(pds, m).err)
    ELSE Returns([member |-> m, link |-> None, data |-> UnloadData(pds, m).val])

UnloadMember(pds, m) ==
    IF get_member_info(pds, m).err # "" THEN Raises(get_member_info(pds, m).err)
    ELSE UnloadWith(pds, m, get_member_info(pds, m).val)

\* The loop `for m in self.get_members(pds)` from member i on: nothing catches
\* an exception, the first one ends the loop and the call
RECURSIVE UnloadMembers(_, _, _, _)
UnloadNext(pds, names, i, out, r) ==
    IF r.err # "" THEN [err |-> r.err, val |-> out]
    ELSE UnloadMembers(pds, names, i + 1, Append(out, r.val))

UnloadMembers(pds, names, i, out) ==
    IF i > Len(names) THEN [err |-> "", val |-> out]
    ELSE UnloadNext(pds, names, i, out, UnloadMember(pds, names[i]))

\* XMIT.unload_pds, for a partitioned dataset
unload_pds(pds) ==
    IF check_parsed THEN Raises("Exception: not parsed")
    ELSE IF ~is_pds(pds) THEN Raises("unload_file")
    ELSE IF get_members(pds).err # "" THEN Raises(get_members(pds).err)
    ELSE UnloadMembers(pds, get_members(pds).val, 1, <<>>)

\* XMIT.unload_files of an archive without a message whose only dataset is
\* dsname: the loop over get_files() has one iteration
UnloadFiles ==
    /\ pc = "done" /\ called = NoCall /\ ~msg
    /\ called' = [op |-> "unload_files"]
    /\ \E r \in {unload_pds(dsname)} : returned' = r
    /\ UNCHANGED <<objvars, cfgvars, ctlvars, xmivars, tapevars, pdsvars,
                   routed, msg_routed, blocks_read, ended_by, unit_named, directory, stored,
                   previous>>

UnloadKinds == {"D1", "Z1", "Z2"}

InitUnload == InitPdsOf({FALSE}, UnloadKinds)

NextUnload == ProcessBlocks \/ PdsBlock \/ PdsEnd \/ UnloadFiles

SpecUnload == InitUnload /\ [][NextUnload]_vars

\* the names of the members written (files and links)
Written(out) == {out[i].member : i \in 1..Len(out)}

\* C21: an error while one member is extracted does not end unload_files():
\* every member whose own extraction does not fail has been written when the
\* call is over, whatever happened to the members before it.
C21_ExtractionGoesOn ==
    called = [op |-> "unload_files"] =>
        \A i \in 1..Len(ParsedMembers) :
            UnloadMember(dsname, ParsedMembers[i].name).err = ""
            => ParsedMembers[i].name \in Written(returned.val)

-----------------------------------------------------------------------------
(* The infile override: XMIT(infile=...) and open(infile=...) *)

\* XMI files that parse without an override: INMR01, INMR02, INMR03, data
\* segments that end a record, with or without INMR06
InfileInputs ==
    {XmiBuffer(<<"R02n", "R03">> \o kinds \o <<"D40">> \o last) :
        kinds \in SeqsUpTo({"D80", "D40"}, 2), last \in {<<>>, <<"R06">>}}

InitInfile ==
    /\ filename = FileName
    /\ disk \in InfileInputs
    /\ infile \in {None, OverrideName}
    /\ force = FALSE /\ unnum = TRUE /\ binary = FALSE /\ manual_recordlength = 80
    /\ Constructed

\* open() or open(infile=OverrideName), once
OpenInfile == opens = 0 /\ \E arg \in {None, OverrideName} : Open(arg)

NextInfile == OpenInfile \/ XmiSegment \/ XmiEnd \/ GetXmiFiles

SpecInfile == InitInfile /\ [][NextInfile]_vars

\* C22: with an override name configured, by the constructor or by
\* open(infile=...), the parse of an XMI file succeeds and the dataset is
\* stored and listed under the override name.
C22_InfileOverride ==
    /\ err # "AttributeError: set_infile"
    /\ (infile # None /\ opens >= 1 /\ pc \in {"done", "raised"})
       => (pc = "done" /\ get_files.err = "" /\ get_files.val = {OverrideName})

-----------------------------------------------------------------------------
(* Text units on their own: one call of __text_units on a record made of      *)
(* well-formed units                                                           *)

UnitKinds == {"DSORG", "LRECL", "DSNAM", "FUID", "TERM", "FACK0", "LRECL0"}

\* The bytes of a unit; TERM, FACK0 and LRECL0 have count 0 (keys 0x0028,
\* 0x1026 and 0x0042)
UnitOf(k) ==
    IF k = "DSORG" THEN TU_DSORG
    ELSE IF k = "LRECL" THEN TU_LRECL
    ELSE IF k = "DSNAM" THEN TU_DSNAM
    ELSE IF k = "FUID" THEN TU_FUID
    ELSE IF k = "TERM" THEN TU_TERM
    ELSE IF k = "FACK0" THEN TextUnit(K_INMFACK, <<>>)
    ELSE TextUnit(66, <<>>)

RECURSIVE UnitsRecord(_)
UnitsRecord(kinds) == IF kinds = <<>> THEN <<>> ELSE UnitOf(Head(kinds)) \o UnitsRecord(Tail(kinds))

MaxUnits == 3

CallTextUnits ==
    /\ pc = "idle" /\ called = NoCall
    /\ \E kinds \in SeqsUpTo(UnitKinds, MaxUnits) :
         /\ called' = [op |-> "text_units", units |-> kinds]
         /\ \E r \in {TextUnits(UnitsRecord(kinds), FALSE)} : returned' = r
    /\ UNCHANGED <<objvars, cfgvars, ctlvars, xmivars, tapevars, pdsvars,
                   routed, msg_routed, blocks_read, ended_by, unit_named, directory, stored,
                   previous>>

InitUnits ==
    /\ filename = None /\ disk = NoFile /\ infile = None
    /\ force = FALSE /\ unnum = TRUE /\ binary = FALSE /\ manual_recordlength = 80
    /\ Constructed

NextUnits == CallTextUnits

SpecUnits == InitUnits /\ [][NextUnits]_vars

UnitsCalled == Has(called, "units")

\* C23: a unit with count 0 takes 4 bytes whatever its key: the call returns
\* (it does not loop for ever), and it has set the message flag exactly when
\* the record holds the unit of key 0x0028.
C23_ZeroCountAdvances ==
    UnitsCalled =>
        /\ returned.status = "ok"
        /\ returned.msg <=> (\E i \in 1..Len(called.units) : called.units[i] = "TERM")


\* The mnemonic of the units whose value is a string or raw bytes
UnitName(k) == IF k = "DSORG" THEN "INMDSORG" ELSE IF k = "FUID" THEN "INMFUID" ELSE "INMDSNAM"

\* no kind of unit occurs twice in the record
UnitsDistinct(kinds) == \A i, j \in 1..Len(kinds) : kinds[i] = kinds[j] => i = j

\* C24: the value stored under a mnemonic is the decoding of that unit's own
\* entries, whatever units precede it in the record (INMDSNAM: its entries
\* joined with '.').  Stated for the units of type character and hex.
C24_OwnValue ==
    (UnitsCalled /\ returned.status = "ok" /\ UnitsDistinct(called.units)) =>
        \A i \in 1..Len(called.units) :
            called.units[i] \in {"DSORG", "FUID", "DSNAM"} =>
                /\ Has(returned.tu, UnitName(called.units[i]))
                /\ returned.tu[UnitName(called.units[i])]
                   = TextUnits(UnitOf(called.units[i]), FALSE).tu[UnitName(called.units[i])]

-----------------------------------------------------------------------------
(* Termination of the two parser loops.  pc = "hang" is the loop whose         *)
(* iteration leaves the cursor and every local where they were.                *)

\* C25: parse_xmi terminates on every buffer that starts with INMR01: each
\* iteration of the segment loop advances the cursor, also at a length byte of
\* 0 or 1.
C25_XmiLoopTerminates == ~(pc = "hang" /\ Dispatch(file_object) = "xmi")

\* C26: parse_tape terminates on every buffer, also when an accumulator is
\* discarded as a label at a block that carries the tape-mark flag and label
\* data.
C26_TapeLoopTerminates == ~(pc = "hang" /\ Dispatch(file_object) = "tape")

-----------------------------------------------------------------------------
(* What a failed parse leaves behind *)

\* C29: if open() raises while parsing (XMI or tape), then afterwards
\* check_parsed() raises: no partially populated archive is exposed.
C29_NoHalfBuiltArchive ==
    [][(pc \in {"parse_xmi", "parse_tape"} /\ pc' = "raised") => check_parsed']_vars

-----------------------------------------------------------------------------
(* Tapes of several files, each with or without its own labels *)

\* The blocks of one tape file: data and tape mark, after no label, HDR1, or
\* HDR1 and HDR2 (recfm F or V) closed by a tape mark; or one data block that
\* carries the tape-mark flag itself, after no label or HDR1 and HDR2
FileKinds == {<<"D", "M">>, <<"H", "M", "D", "M">>,
              <<"H", "G", "M", "D", "M">>, <<"H", "Gv", "M", "D", "M">>,
              <<"F">>, <<"H", "Gv", "F">>}

MaxFiles == 2

FilesInputs == {TapeBuffer(Concat(fs)) : fs \in SeqsUpTo(FileKinds, MaxFiles)}

InitFiles ==
    /\ filename = FileName
    /\ disk \in FilesInputs
    /\ infile = None
    /\ force = FALSE /\ unnum = TRUE /\ binary = FALSE /\ manual_recordlength = 80
    /\ Constructed

NextFiles == OpenOnce \/ TapeBlock \/ TapeEnd \/ GetTapeFiles

SpecFiles == InitFiles /\ [][NextFiles]_vars

\* The text renderings the bytes and labels of the stored file f can give
OwnTexts(f) ==
    {convert_text_file(f.data, manual_recordlength)}
    \cup (IF Has(f, "HDR2") THEN {convert_text_file(f.data, f.HDR2.lrecl)} ELSE {})

\* C28: the text stored for a tape dataset is derived only from that dataset's
\* own bytes and labels; no dataset receives the text computed for an earlier
\* dataset on the same tape.
C28_OwnText ==
    Has(tape, "file") =>
        \A n \in DOMAIN tape.file :
            Has(tape.file[n], "text") => tape.file[n].text \in OwnTexts(tape.file[n])

\* C30: every tape file completed by parse_tape remains in the archive: the
\* number of datasets listed after parsing equals the number of file numbers
\* assigned, each named by its HDR1 dsn or FILE{num:04d}, also when two files
\* carry the same HDR1 dataset name.
C30_EveryFileKept ==
    pc \in {"get_tape_files", "done"} =>
        /\ Cardinality(DOMAIN tape.file) = file_num - 1
        /\ \A n \in DOMAIN tape.file :
              n = TapeFileName(IF Has(tape.file[n], "HDR1") THEN tape.file[n].HDR1
                               ELSE EmptyDict, tape.file[n].num)

-----------------------------------------------------------------------------
(* The PDS dir as bytes: pages of 276 bytes (__all_members,              *)
(* __get_members_info)                                                         *)

\* the one element of a set of one value
Only(S) == CHOOSE x \in S : TRUE

EndOfDirectory == Repeat(255, 8)

\* the halfword count of the entry at dloc: directory_members_info[dloc + 11] & 0x1F
EntryHalfwords(info, dloc) == (info[dloc + 12] % 32) * 2

\* The dict __get_members_info stores for the entry at dloc.  The ISPF
\* statistics are present for 30 bytes of user data or more; their dates and
\* counters are read by queries only and are left out here.
EntryInfo(info, dloc) ==
    Only({[ttr |-> GetIntBig(Slice(info, dloc + 8, dloc + 11)),
           alias |-> HasBit(info[dloc + 12], 128),
           halfwords |-> EntryHalfwords(info, dloc),
           notes |-> (info[dloc + 12] \div 32) % 4,
           parms |-> parms,
           ispf |-> IF Len(parms) >= 30 /\ (info[dloc + 12] \div 32) % 4 = 0
                    THEN [flags |-> parms[3],
                          user |-> RStrip(Decode(Slice(parms, 20, 28)))]
                    ELSE EmptyDict]
          : parms \in {Slice(info, dloc + 12, dloc + 12 + EntryHalfwords(info, dloc))}})

\* `while dloc < directory_len` of __get_members_info, from dloc on: [err, members, dloc];
\* total is len(directory)
RECURSIVE MemberEntries(_, _, _, _, _)
MemberEntries(info, directory_len, total, members, dloc) ==
    IF dloc >= directory_len THEN [err |-> "", members |-> members, loc |-> dloc]
    ELSE IF Slice(info, dloc, dloc + 8) = EndOfDirectory
    THEN [err |-> "", members |-> members, loc |-> total]
    ELSE IF dloc + 11 >= Len(info)
    THEN [err |-> "IndexError", members |-> members, loc |-> dloc]
    ELSE Only({MemberEntries(info, directory_len, total, ms,
                             dloc + 8 + 3 + 1 + EntryHalfwords(info, dloc))
               : ms \in {SetMember(members, RStrip(Decode(Slice(info, dloc, dloc + 8))),
                                   EntryInfo(info, dloc))}})

\* block_loc after a page: `block_loc += dloc + 24`, then up to a multiple of 276
NextBlockLoc(block_loc, dloc) ==
    IF (block_loc + dloc + 24) % 276 > 0
    THEN 276 * ((block_loc + dloc + 24) \div 276) + 276
    ELSE block_loc + dloc + 24

\* directory_len and directory_members_info of the page at block_loc
DirectoryLen(dir, block_loc) ==
    GetIntBig(Slice(dir, block_loc + 20, block_loc + 22)) - 2
MembersInfo(dir, block_loc) ==
    Slice(dir, block_loc + 22, block_loc + 22 + DirectoryLen(dir, block_loc))

\* `while block_loc < len(directory)` of __get_members_info: [err, members, pages];
\* pages lists the offsets at which a page was parsed
RECURSIVE MembersInfoFrom(_, _, _, _)
MembersInfoFrom(dir, block_loc, members, pages) ==
    IF block_loc >= Len(dir) THEN [err |-> "", members |-> members, pages |-> pages]
    ELSE Only({IF r.err # ""
               THEN [err |-> r.err, members |-> r.members, pages |-> Append(pages, block_loc)]
               ELSE MembersInfoFrom(dir, NextBlockLoc(block_loc, r.loc), r.members,
                                    Append(pages, block_loc))
               : r \in {MemberEntries(MembersInfo(dir, block_loc),
                                      DirectoryLen(dir, block_loc),
                                      Len(dir), members, 0)}})

\* XMIT.__get_members_info(directory)
get_members_info(dir) == MembersInfoFrom(dir, 0, <<>>, <<>>)

\* The inner loop of __all_members from dloc on: [err, found]
RECURSIVE AllMembersEntries(_, _, _)
AllMembersEntries(info, directory_len, dloc) ==
    IF dloc >= directory_len THEN [err |-> "", found |-> FALSE]
    ELSE IF Slice(info, dloc, dloc + 8) = EndOfDirectory THEN [err |-> "", found |-> TRUE]
    ELSE IF dloc + 11 >= Len(info) THEN [err |-> "IndexError", found |-> FALSE]
    ELSE AllMembersEntries(info, directory_len, dloc + 8 + 3 + 1 + EntryHalfwords(info, dloc))

\* The outer loop of __all_members: [err, val, pages]
RECURSIVE AllMembersFrom(_, _, _)
AllMembersFrom(members, block_loc, pages) ==
    IF block_loc >= Len(members) THEN [err |-> "", val |-> FALSE, pages |-> pages]
    ELSE Only({IF r.err # "" \/ r.found
               THEN [err |-> r.err, val |-> r.found, pages |-> Append(pages, block_loc)]
               ELSE AllMembersFrom(members, block_loc + 276, Append(pages, block_loc))
               : r \in {AllMembersEntries(MembersInfo(members, block_loc),
                                          DirectoryLen(members, block_loc), 0)}})

\* XMIT.__all_members(members)
all_members(members) == AllMembersFrom(members, 0, <<>>)

-----------------------------------------------------------------------------
(* Inputs: directories built from pages *)

\* EBCDIC A..Z
Letters == <<193, 194, 195, 196, 197, 198, 199, 200, 201, 209, 210, 211, 212, 213, 214, 215,
             216, 217, 226, 227, 228, 229, 230, 231, 232, 233>>

\* Entry j of page p: an 8-byte name of two letters, a TTR, and hw halfwords of user data
PageEntry(p, j, hw) ==
    <<Letters[p], Letters[j]>> \o Repeat(64, 6) \o <<0, p, j>> \o <<hw>> \o Repeat(0, 2 * hw)

\* the entries j..n of page p, without user data
RECURSIVE PageEntries(_, _, _)
PageEntries(p, j, n) == IF j > n THEN <<>> ELSE PageEntry(p, j, 0) \o PageEntries(p, j + 1, n)

EndEntry == EndOfDirectory \o <<0, 0, 0, 0>>

\* A page uses 26 bytes (two entries), 254 (21 entries of 12 bytes), all 256
\* (20 entries of 12 bytes and one of 14), or it holds the end marker after one
\* entry or after none
PageKinds == {"two", "most", "full", "end", "endonly"}

PageData(k, p) ==
    IF k = "two" THEN PageEntries(p, 1, 2)
    ELSE IF k = "most" THEN PageEntries(p, 1, 21)
    ELSE IF k = "full" THEN PageEntries(p, 1, 20) \o PageEntry(p, 21, 1)
    ELSE IF k = "end" THEN PageEntries(p, 1, 1) \o EndEntry
    ELSE EndEntry

\* 8 bytes of zeroes, key length 8, data length 256, the last referenced
\* member, the length used (it counts its own halfword), the entries, padding
Page(k, p) ==
    Repeat(0, 8) \o <<0, 8>> \o <<1, 0>> \o Repeat(0, 8) \o U16(Len(PageData(k, p)) + 2)
    \o PageData(k, p) \o Repeat(0, 254 - Len(PageData(k, p)))

RECURSIVE DirectoryFrom(_, _)
DirectoryFrom(kinds, p) ==
    IF p > Len(kinds) THEN <<>> ELSE Page(kinds[p], p) \o DirectoryFrom(kinds, p + 1)

DirectoryOf(kinds) == DirectoryFrom(kinds, 1)

\* the names of the entries of page p of kind k
PageNames(k, p) ==
    [j \in 1..(IF k = "two" THEN 2 ELSE IF k \in {"most", "full"} THEN 21
               ELSE IF k = "end" THEN 1 ELSE 0) |-> <<64 + p, Cp1140(Letters[j])>>]

\* the names that precede the end marker, from page p on
RECURSIVE NamesBeforeEnd(_, _)
NamesBeforeEnd(kinds, p) ==
    IF p > Len(kinds) THEN <<>>
    ELSE PageNames(kinds[p], p)
         \o (IF kinds[p] \in {"end", "endonly"} THEN <<>> ELSE NamesBeforeEnd(kinds, p + 1))

MaxPages == 3

\* One call of __get_members_info on a directory
CallGetMembersInfo ==
    /\ pc = "idle" /\ called = NoCall
    /\ \E kinds \in SeqsUpTo(PageKinds, MaxPages) :
         /\ called' = [op |-> "get_members_info", directory |-> kinds]
         /\ \E r \in {get_members_info(DirectoryOf(kinds))} : returned' = r
    /\ UNCHANGED <<objvars, cfgvars, ctlvars, xmivars, tapevars, pdsvars,
                   routed, msg_routed, blocks_read, ended_by, unit_named, directory, stored,
                   previous>>

NextDir == CallGetMembersInfo

SpecDir == InitUnits /\ [][NextDir]_vars

DirCalled == Has(called, "directory")

\* C27: for a directory made of 276-byte pages, __get_members_info parses page
\* k+1 at offset 276*(k+1) after finishing page k, for every used length up to
\* the full 256 bytes: it visits exactly the pages that __all_members visits and
\* returns exactly the entries that precede the end marker across all pages.
C27_DirectoryWalk ==
    DirCalled =>
        /\ returned.err = ""
        /\ returned.pages = all_members(DirectoryOf(called.directory)).pages
        /\ MemberNames(returned.members) = NamesBeforeEnd(called.directory, 1)

====
